---- MODULE Spec2Model ----
(***************************************************************************)
(* Data-preparation pipeline of the public-health dashboard:               *)
(*   load_raw_dataset -> clean_raw_data -> create_business_features        *)
(*   -> generate_analysis_tables, driven by get_processed_data, and its    *)
(*   two callers: save_analysis_tables.py and app.py.                      *)
(*                                                                         *)
(* Representation.                                                         *)
(*   A DataFrame is [cols, rows]: the set of column names and a bag of     *)
(*   rows (row |-> number of copies); a row is a record keyed by the       *)
(*   column names.  Nothing in the pipeline reads the row index or the     *)
(*   row order of a frame, so a bag keeps what the code can observe and    *)
(*   lets a file hold 500 rows.                                            *)
(*   A float cell is [t, v]: t = "num" with v in tenths, t = "nan" for a   *)
(*   missing value, t = "txt" for text that is not a number.               *)
(*   A date cell is [t, y, m]: t = "date" (year, month), "nat" (missing)   *)
(*   or "txt" (text no date format matches).                               *)
(*   A text cell is a string; "NaN" is the missing value.                  *)
(*   Ratios rounded to 3 decimals are integers in thousandths, rates       *)
(*   rounded to 2 decimals are integers in hundredths, an unrounded mean   *)
(*   is a reduced fraction [n, d].                                         *)
(***************************************************************************)
EXTENDS Integers, Sequences, FiniteSets, Bags, TLC

VARIABLES
    entry,            \* the function the caller invoked
    args,             \* the year_filter and region_filter the caller passed
    pc,               \* position of the run: the stage about to execute
    file,             \* the source file on disk
    raw_data,         \* get_processed_data: raw_data
    cleaned_data,     \* get_processed_data: cleaned_data
    feature_data,     \* get_processed_data: feature_data
    year_filter,      \* year_filter argument (rebound by the default step)
    region_filter,    \* region_filter argument (rebound by the default step)
    analysis_tables,  \* the bundle returned by generate_analysis_tables
    err,              \* the exception that left the entry function
    overwrite,        \* save_analysis_tables: the overwrite flag
    output_file,      \* save_analysis_tables: the pickle file on disk
    selected_page,    \* app.py: the page chosen in the sidebar
    screen,           \* app.py: what the run has put on the page
    suspended         \* the locals of a second call of get_processed_data
                      \* while the thread of the first one runs

\* the state of the two callers of get_processed_data
callers == <<overwrite, output_file, selected_page, screen, suspended>>

vars == <<entry, args, pc, file, raw_data, cleaned_data, feature_data,
          year_filter, region_filter, analysis_tables, err, callers>>

-----------------------------------------------------------------------------
(* Bounds of the input spaces *)

\* distinct rows of a frame handed directly to a stage
MaxRows == 3
\* distinct rows of the source file read by the pipeline
MaxFileRows == 2
\* distinct rows of a feature set handed directly to the aggregator
MaxFeatureRows == 2
\* distinct rows of a raw frame whose numeric cells vary
MaxNumericRows == 3
\* distinct rows of a cleaned frame whose ages vary
MaxAgeRows == 2
\* distinct rows of a feature set whose vaccine-effect keys vary
MaxVaccineRows == 2
\* distinct rows of the source file two concurrent calls read
MaxSharedRows == 2

-----------------------------------------------------------------------------
(* Cells *)

NaN == [t |-> "nan", v |-> 0]
Txt == [t |-> "txt", v |-> 0]
Num(v) == [t |-> "num", v |-> v]
Whole(n) == Num(10 * n)
IsNum(c) == c.t = "num"

NaT == [t |-> "nat", y |-> 0, m |-> 0]
TxtDate == [t |-> "txt", y |-> 0, m |-> 0]
Date(y, m) == [t |-> "date", y |-> y, m |-> m]
IsDate(c) == c.t = "date"

NaNText == "NaN"

-----------------------------------------------------------------------------
(* Frames *)

RECURSIVE SumFn(_, _)
SumFn(f, S) ==
    IF S = {} THEN 0
    ELSE LET x == CHOOSE x \in S : TRUE
         IN f[x] + SumFn(f, S \ {x})

Frame(cols, rows) == [cols |-> cols, rows |-> rows]
NoFrame == Frame({}, EmptyBag)
RowsOf(df) == DOMAIN df.rows
\* len(df)
NRows(df) == SumFn(df.rows, RowsOf(df))
\* df[mask]: keep is the set of rows the mask selects
Where(df, keep) ==
    Frame(df.cols, [r \in RowsOf(df) \cap keep |-> df.rows[r]])
\* a row-wise rewrite of the frame (image: row |-> new row); rows that become
\* equal are counted together
MapRows(df, cols, image) ==
    Frame(cols,
          [s \in {image[r] : r \in RowsOf(df)} |->
              SumFn(df.rows, {r \in RowsOf(df) : image[r] = s})])
\* df[col] = value(row)
Assign(r, col, value) ==
    IF col \in DOMAIN r THEN [r EXCEPT ![col] = value] ELSE (col :> value) @@ r
\* df[col] = value[row], for every row
SetCol(df, col, value) ==
    MapRows(df, df.cols \cup {col}, [r \in RowsOf(df) |-> Assign(r, col, value[r])])
\* number of rows of df that are in the set S
Count(df, S) == SumFn(df.rows, RowsOf(df) \cap S)
\* the rows of df whose field holds v
Having(df, field, v) == {r \in RowsOf(df) : r[field] = v}

-----------------------------------------------------------------------------
(* Exceptions *)

NoError == [type |-> "None", msg |-> <<>>, cause |-> <<>>]
\* raise Type(text)
Raise(type, text) == [type |-> type, msg |-> <<text>>, cause |-> <<>>]
\* raise Type(f"{context}: {str(e)}") from e
RaiseFrom(type, context, e) ==
    [type |-> type, msg |-> <<context>> \o e.msg, cause |-> <<e.type>> \o e.cause]

Ok(value) == [ok |-> TRUE, val |-> value, err |-> NoError]
Fail(e) == [ok |-> FALSE, val |-> NoFrame, err |-> e]

-----------------------------------------------------------------------------
(* utils/io.py *)

REQUIRED_FIELDS ==
    {"Date_of_Onset", "Location", "SES", "Chronic_Conditions",
     "Vaccination_Status", "Daily_New_Cases", "Hospital_Capacity",
     "Hospitalization_Requirement", "Immunity_Level", "Age"}

min_data_rows == 500

\* pd.read_csv(..., parse_dates=["Date_of_Onset"]): a file that cannot be
\* decoded or tokenized raises, and so does a header without the column
\* named in parse_dates; otherwise the frame holds the file's cells.
ReadCsv(f) ==
    IF ~f.readable
    THEN Fail(Raise("ParserError", "Error tokenizing data"))
    ELSE IF "Date_of_Onset" \notin f.table.cols
    THEN Fail(Raise("ValueError", "Missing column provided to 'parse_dates'"))
    ELSE Ok(f.table)

\* raw_df['Date_of_Onset'].min().date() of the summary print: a column that
\* read_csv could not parse as dates holds text, and its minimum has no
\* .date(); a column with no date at all has the minimum NaT, and NaT does
\* not support .date().
DateRange(df) ==
    IF \E r \in RowsOf(df) : r["Date_of_Onset"].t = "txt"
    THEN Fail(Raise("AttributeError", "'str' object has no attribute 'date'"))
    ELSE IF ~\E r \in RowsOf(df) : IsDate(r["Date_of_Onset"])
    THEN Fail(Raise("ValueError", "NaTType does not support date"))
    ELSE Ok(df)

LoadRawDatasetWrapped(e) ==
    Fail(RaiseFrom("RuntimeError", "Failed to load raw dataset", e))

load_raw_dataset(f) ==
    IF ~f.exists
    THEN Fail(Raise("FileNotFoundError", "Raw dataset not found"))
    ELSE LET read == ReadCsv(f)
         IN IF ~read.ok
            THEN LoadRawDatasetWrapped(read.err)
            ELSE LET raw_df == read.val
                     missing_fields == {fld \in REQUIRED_FIELDS : fld \notin raw_df.cols}
                 IN IF missing_fields # {}
                    THEN Fail(Raise("ValueError", "Missing required fields in raw dataset"))
                    ELSE IF NRows(raw_df) < min_data_rows
                    THEN Fail(Raise("ValueError", "Raw dataset is too small"))
                    ELSE DateRange(raw_df)

-----------------------------------------------------------------------------
(* utils/prep.py: clean_raw_data *)

\* col.lower().replace(" ", "_") on the column names the inputs use
LowerOf ==
    [Date_of_Onset |-> "date_of_onset", Location |-> "location", SES |-> "ses",
     Chronic_Conditions |-> "chronic_conditions",
     Vaccination_Status |-> "vaccination_status",
     Daily_New_Cases |-> "daily_new_cases",
     Hospital_Capacity |-> "hospital_capacity",
     Hospitalization_Requirement |-> "hospitalization_requirement",
     Immunity_Level |-> "immunity_level", Age |-> "age",
     Resource_Utilization |-> "resource_utilization",
     Vaccine_Coverage |-> "vaccine_coverage"]
    @@ ("Hospital Capacity" :> "hospital_capacity")
NormalizeName(col) == IF col \in DOMAIN LowerOf THEN LowerOf[col] ELSE col

StandardizeNames(df) ==
    LET cols == {NormalizeName(c) : c \in df.cols}
    IN MapRows(df, cols,
               [r \in RowsOf(df) |->
                   [c \in cols |-> r[CHOOSE k \in DOMAIN r : NormalizeName(k) = c]]])

\* the columns clean_raw_data subscripts, in the order it reaches them
CleanedFieldOrder ==
    <<"date_of_onset", "location", "ses", "immunity_level",
      "chronic_conditions", "vaccination_status", "daily_new_cases",
      "hospital_capacity", "hospitalization_requirement", "age">>
CoreFields == {CleanedFieldOrder[i] : i \in DOMAIN CleanedFieldOrder}

\* pd.to_datetime(errors="coerce", format="mixed"), then dropna on the date
ToDatetime(c) == IF IsDate(c) THEN c ELSE NaT
CleanDates(df) ==
    LET parsed == SetCol(df, "date_of_onset",
                         [r \in RowsOf(df) |-> ToDatetime(r.date_of_onset)])
        invalid_date_count == Count(parsed, Having(parsed, "date_of_onset", NaT))
    IN IF invalid_date_count > 0
       THEN Where(parsed, {r \in RowsOf(parsed) : IsDate(r.date_of_onset)})
       ELSE parsed

\* .str.title().str.strip() on the spellings the inputs use
TitleOf ==
    ("urban" :> "Urban") @@ ("URBAN" :> "Urban") @@ (" Urban " :> "Urban")
    @@ ("rural" :> "Rural") @@ ("high" :> "High") @@ ("LOW" :> "Low")
TitleStrip(s) == IF s \in DOMAIN TitleOf THEN TitleOf[s] ELSE s

\* sort order of the text values (Series.mode() returns its modes sorted, and
\* groupby its keys)
TextOrder ==
    <<"Autumn", "High", "Low", "Medium", "Rural", "Spring", "Suburban", "Summer",
      "Unknown", "Urban", "Winter">>
TextRank(s) == CHOOSE i \in DOMAIN TextOrder : TextOrder[i] = s

\* clean_df[field].mode(): the most frequent non-missing values
Modes(df, field) ==
    LET vals == {r[field] : r \in RowsOf(df)} \ {NaNText}
        freq == [v \in vals |-> Count(df, Having(df, field, v))]
    IN {v \in vals : \A w \in vals : freq[w] <= freq[v]}

CleanCategorical(df, field) ==
    LET titled == SetCol(df, field, [r \in RowsOf(df) |-> TitleStrip(r[field])])
        missing_count == Count(titled, Having(titled, field, NaNText))
        modes == Modes(titled, field)
        mode_value ==
            IF modes # {}
            THEN CHOOSE v \in modes : \A w \in modes : TextRank(v) <= TextRank(w)
            ELSE "Unknown"
    IN IF missing_count > 0
       THEN SetCol(titled, field,
                   [r \in RowsOf(titled) |->
                       IF r[field] = NaNText THEN mode_value ELSE r[field]])
       ELSE titled

\* pd.to_numeric(errors="coerce")
ToNumeric(c) == IF IsNum(c) THEN c ELSE NaN
\* .astype(int): truncation toward zero
AsInt(v) == IF v >= 0 THEN (v \div 10) * 10 ELSE 0 - (((0 - v) \div 10) * 10)

BinaryValue(c) == Num(AsInt(IF IsNum(ToNumeric(c)) THEN c.v ELSE 0))
IsBinary(c) == c.v \in {0, 10}

CleanBinary(df, field) ==
    LET coded == SetCol(df, field, [r \in RowsOf(df) |-> BinaryValue(r[field])])
        valid == {r \in RowsOf(coded) : IsBinary(r[field])}
        invalid_val_count == Count(coded, RowsOf(coded) \ valid)
    IN IF invalid_val_count > 0
       THEN Where(coded, valid)
       ELSE coded

default_values ==
    [daily_new_cases |-> Whole(0), hospital_capacity |-> Whole(100),
     hospitalization_requirement |-> Whole(10), age |-> Whole(35)]

\* Series.median(): NaN are skipped; NaN when nothing is left.  The inputs
\* hold whole numbers, so the mean of the two middle values is exact in tenths.
Median(df, field) ==
    LET present == {r \in RowsOf(df) : IsNum(r[field])}
        n == Count(df, present)
        vals == {r[field].v : r \in present}
        atMost == [v \in vals |-> Count(df, {r \in present : r[field].v <= v})]
        below == [v \in vals |-> Count(df, {r \in present : r[field].v < v})]
        Kth(k) == CHOOSE v \in vals : below[v] < k /\ k <= atMost[v]
    IN IF n = 0 THEN NaN
       ELSE IF n % 2 = 1 THEN Num(Kth((n + 1) \div 2))
       ELSE Num((Kth(n \div 2) + Kth(n \div 2 + 1)) \div 2)

\* (mutant) the capacity/requirement rule keeps zero
InRangeZeroKept(field, v) ==
    IF field = "daily_new_cases" THEN v >= 0
    ELSE IF field = "age" THEN v >= 0 /\ v <= 1200
    ELSE v >= 0

\* the outlier rule of a numeric field
InRange(field, v) ==
    IF field = "daily_new_cases" THEN v >= 0
    ELSE IF field = "age" THEN v >= 0 /\ v <= 1200
    ELSE v > 0

\* (mutant) the outlier rule is applied before the fill
CleanNumericOutlierFirst(df, field) ==
    LET numeric == SetCol(df, field, [r \in RowsOf(df) |-> ToNumeric(r[field])])
        inliers ==
            Where(numeric, {r \in RowsOf(numeric) :
                              IsNum(r[field]) => InRange(field, r[field].v)})
        median == Median(inliers, field)
        median_value == IF IsNum(median) THEN median ELSE default_values[field]
    IN SetCol(inliers, field,
              [r \in RowsOf(inliers) |->
                  IF IsNum(r[field]) THEN r[field] ELSE median_value])

CleanNumeric(df, field) ==
    LET numeric == SetCol(df, field, [r \in RowsOf(df) |-> ToNumeric(r[field])])
        median == Median(numeric, field)
        median_value == IF IsNum(median) THEN median ELSE default_values[field]
        missing_count == Count(numeric, Having(numeric, field, NaN))
        filled ==
            IF missing_count > 0
            THEN SetCol(numeric, field,
                        [r \in RowsOf(numeric) |->
                            IF IsNum(r[field]) THEN r[field] ELSE median_value])
            ELSE numeric
    IN Where(filled, {r \in RowsOf(filled) : InRange(field, r[field].v)})

\* (mutant) the emptiness check is skipped
NothingValidUnchecked(clean_df) == FALSE

\* if clean_df.empty
NothingValid(clean_df) == NRows(clean_df) = 0

clean_raw_data(raw_df) ==
    LET named == StandardizeNames(raw_df)
        absent == {i \in DOMAIN CleanedFieldOrder : CleanedFieldOrder[i] \notin named.cols}
        dated == CleanDates(named)
        categorical ==
            CleanCategorical(CleanCategorical(CleanCategorical(dated,
                "location"), "ses"), "immunity_level")
        binary ==
            CleanBinary(CleanBinary(categorical,
                "chronic_conditions"), "vaccination_status")
        clean_df ==
            CleanNumeric(CleanNumeric(CleanNumeric(CleanNumeric(binary,
                "daily_new_cases"), "hospital_capacity"),
                "hospitalization_requirement"), "age")
    IN IF absent # {}
       THEN Fail(Raise("KeyError",
                       CleanedFieldOrder[CHOOSE i \in absent : \A j \in absent : i <= j]))
       ELSE IF NothingValid(clean_df)
       THEN Fail(Raise("ValueError", "No valid data left after cleaning"))
       ELSE Ok(clean_df)

-----------------------------------------------------------------------------
(* utils/prep.py: create_business_features *)

season_mapping ==
    [m \in 1..12 |->
        IF m \in {12, 1, 2} THEN "Winter"
        ELSE IF m \in {3, 4, 5} THEN "Spring"
        ELSE IF m \in {6, 7, 8} THEN "Summer"
        ELSE "Autumn"]

\* (mutant) right=False: the intervals [0, 18), [18, 65), [65, 120)
AgeGroupRightOpen(c) ==
    IF ~IsNum(c) THEN NaNText
    ELSE IF c.v >= 0 /\ c.v < 180 THEN "Child (0-18)"
    ELSE IF c.v >= 180 /\ c.v < 650 THEN "Adult (19-65)"
    ELSE IF c.v >= 650 /\ c.v < 1200 THEN "Elderly (66+)"
    ELSE NaNText

\* pd.cut(age, bins=[0, 18, 65, 120], labels=..., include_lowest=True):
\* the intervals [0, 18], (18, 65], (65, 120]; no interval, no label
AgeGroup(c) ==
    IF ~IsNum(c) THEN NaNText
    ELSE IF c.v >= 0 /\ c.v <= 180 THEN "Child (0-18)"
    ELSE IF c.v > 180 /\ c.v <= 650 THEN "Adult (19-65)"
    ELSE IF c.v > 650 /\ c.v <= 1200 THEN "Elderly (66+)"
    ELSE NaNText

\* round-half-even of the ratio num/den (den > 0) to an integer
RoundRatio(num, den) ==
    LET q == num \div den
        twice == 2 * (num - q * den)
    IN IF twice < den THEN q
       ELSE IF twice > den THEN q + 1
       ELSE IF q % 2 = 0 THEN q ELSE q + 1
\* np.round(num/den, 3), in thousandths
Round3(num, den) == RoundRatio(1000 * num, den)

\* (mutant) the coverage grouped by location alone
CoverageGroupByLocation(df, r) ==
    {q \in RowsOf(df) : q.location = r.location}

\* the rows of the (year, location) group of row r; groupby drops the rows
\* whose key is missing
CoverageGroup(df, r) ==
    {q \in RowsOf(df) : q.year = r.year /\ q.location = r.location}
\* the groupby/apply ratio, left-merged back, fillna(0), rounded to 3 decimals
VaccineCoverage(df, r) ==
    IF r.location = NaNText THEN Num(0)
    ELSE LET group == CoverageGroup(df, r)
         IN Num(Round3(Count(df, {q \in group : q.vaccination_status = Whole(1)}),
                       Count(df, group)))

\* np.clip(x, lo, hi) and Series.clip(upper=hi) keep a missing value missing
Clip(c, lo, hi) ==
    IF ~IsNum(c) THEN NaN
    ELSE IF c.v < lo THEN Num(lo) ELSE IF c.v > hi THEN Num(hi) ELSE c
ClipUpper(c, hi) ==
    IF ~IsNum(c) THEN NaN ELSE IF c.v > hi THEN Num(hi) ELSE c

\* resource_utilization / 100, in thousandths: a percentage held in tenths
UtilizationLoad(c) == IF IsNum(c) THEN Num(c.v) ELSE NaN
\* np.where(capacity > 0, requirement / capacity, 0), rounded to 3 decimals
RatioLoad(r) ==
    IF IsNum(r.hospital_capacity) /\ r.hospital_capacity.v > 0
    THEN IF IsNum(r.hospitalization_requirement)
         THEN Num(Round3(r.hospitalization_requirement.v, r.hospital_capacity.v))
         ELSE NaN
    ELSE Num(0)

UsesUtilization(df) ==
    /\ "resource_utilization" \in df.cols
    /\ \E r \in RowsOf(df) : IsNum(r.resource_utilization)

ResourceLoad(df, r) ==
    IF UsesUtilization(df)
    THEN ClipUpper(Clip(UtilizationLoad(r.resource_utilization), 0, 5000), 5000)
    ELSE ClipUpper(RatioLoad(r), 5000)

season_transmission_mapping ==
    [Winter |-> 120, Spring |-> 90, Summer |-> 60, Autumn |-> 80]

\* the exception of the first statement that cannot run on the frame
FeatureError(df) ==
    IF "date_of_onset" \notin df.cols THEN Raise("KeyError", "date_of_onset")
    ELSE IF \E r \in RowsOf(df) : r.date_of_onset.t = "txt"
    THEN Raise("AttributeError", "Can only use .dt accessor with datetimelike values")
    ELSE IF \E r \in RowsOf(df) : ~IsDate(r.date_of_onset)
    THEN Raise("ValueError", "Cannot convert non-finite values (NA or inf) to integer")
    ELSE IF "age" \notin df.cols THEN Raise("KeyError", "age")
    ELSE IF "location" \notin df.cols THEN Raise("KeyError", "location")
    ELSE IF "vaccination_status" \notin df.cols
    THEN Raise("KeyError", "Column not found: vaccination_status")
    \* the merge renames a vaccine_coverage column already in the frame
    ELSE IF "vaccine_coverage" \in df.cols THEN Raise("KeyError", "vaccine_coverage")
    ELSE IF ~UsesUtilization(df) /\ "hospital_capacity" \notin df.cols
    THEN Raise("KeyError", "hospital_capacity")
    ELSE IF ~UsesUtilization(df) /\ "hospitalization_requirement" \notin df.cols
    THEN Raise("KeyError", "hospitalization_requirement")
    ELSE NoError

create_business_features(clean_df) ==
    LET timed ==
            MapRows(clean_df, clean_df.cols \cup {"year", "month", "season"},
                [r \in RowsOf(clean_df) |->
                    Assign(Assign(Assign(r,
                        "year", r.date_of_onset.y),
                        "month", r.date_of_onset.m),
                        "season", season_mapping[r.date_of_onset.m])])
        aged == SetCol(timed, "age_group", [r \in RowsOf(timed) |-> AgeGroup(r.age)])
        covered == SetCol(aged, "vaccine_coverage",
                          [r \in RowsOf(aged) |-> VaccineCoverage(aged, r)])
        loaded == SetCol(covered, "resource_load",
                         [r \in RowsOf(covered) |-> ResourceLoad(covered, r)])
        feature_df == SetCol(loaded, "transmission_rate",
                             [r \in RowsOf(loaded) |->
                                 Num(season_transmission_mapping[r.season])])
    IN IF FeatureError(clean_df) # NoError
       THEN Fail(FeatureError(clean_df))
       ELSE Ok(feature_df)

-----------------------------------------------------------------------------
(* utils/prep.py: generate_analysis_tables *)

RECURSIVE GCD(_, _)
GCD(a, b) == IF b = 0 THEN a ELSE GCD(b, a % b)
\* an unrounded quotient, as a reduced fraction
Ratio(n, d) ==
    LET g == GCD(IF n < 0 THEN 0 - n ELSE n, d)
    IN [t |-> "num", n |-> n \div g, d |-> d \div g]
NaNRatio == [t |-> "nan", n |-> 0, d |-> 1]

\* lexicographic order of two key tuples of the same length
KeyLess(a, b) ==
    \E i \in DOMAIN a : a[i] < b[i] /\ \A j \in 1..(i - 1) : a[j] = b[j]
\* the keys in ascending order
RECURSIVE SortKeys(_)
SortKeys(S) ==
    IF S = {} THEN <<>>
    ELSE LET least == CHOOSE k \in S : \A other \in S \ {k} : KeyLess(k, other)
         IN <<least>> \o SortKeys(S \ {least})

TruthyUnlessNone(filter) == ~filter.none
\* if year_filter: / if region_filter:
Truthy(filter) == ~filter.none /\ filter.vals # {}

ApplyFiltersYearOnly(feature_df, yf, rf) ==
    IF Truthy(yf)
    THEN Where(feature_df, {r \in RowsOf(feature_df) : r.year \in yf.vals})
    ELSE feature_df
\* the two isin filters
ApplyFilters(feature_df, yf, rf) ==
    LET by_year ==
            IF Truthy(yf)
            THEN Where(feature_df, {r \in RowsOf(feature_df) : r.year \in yf.vals})
            ELSE feature_df
    IN IF Truthy(rf)
       THEN Where(by_year, {r \in RowsOf(by_year) : r.location \in rf.vals})
       ELSE by_year

\* len(filtered_df) == 0
NothingLeft(filtered_df) == NRows(filtered_df) = 0

\* Series.sum() of the rows G: missing values are skipped
SumOf(df, G, field) ==
    LET present == {r \in G : IsNum(r[field])}
    IN SumFn([r \in present |-> df.rows[r] * r[field].v], present)
\* Series.mean() of the rows G: missing values are skipped
MeanOf(df, G, field) ==
    LET present == {r \in G : IsNum(r[field])}
    IN IF present = {} THEN NaNRatio
       ELSE Ratio(SumOf(df, G, field), Count(df, present))
\* Series.median() of the rows G, unrounded
MedianOf(df, G, field) ==
    LET present == {r \in G : IsNum(r[field])}
        n == Count(df, present)
        vals == {r[field].v : r \in present}
        atMost == [v \in vals |-> Count(df, {r \in present : r[field].v <= v})]
        below == [v \in vals |-> Count(df, {r \in present : r[field].v < v})]
        Kth(k) == CHOOSE v \in vals : below[v] < k /\ k <= atMost[v]
    IN IF n = 0 THEN NaNRatio
       ELSE IF n % 2 = 1 THEN Ratio(Kth((n + 1) \div 2), 1)
       ELSE Ratio(Kth(n \div 2) + Kth(n \div 2 + 1), 2)

\* (mutant) the month is not part of the key
TimeKeyYearly(r) == <<r.year, 1, TextRank(r.location)>>

\* groupby(["year", "month", "location"]): rows with a missing key are dropped
TimeKey(r) == <<r.year, r.month, TextRank(r.location)>>
TimeGroup(df, k) == {r \in RowsOf(df) : r.location # NaNText /\ TimeKey(r) = k}
TimeseriesCasesMean(df, G) == Num(SumOf(df, G, "daily_new_cases") \div Count(df, G))
\* "daily_new_cases": "sum"
TimeseriesCases(df, G) == Num(SumOf(df, G, "daily_new_cases"))
TimeseriesTable(df) ==
    LET keys == SortKeys({TimeKey(r) : r \in {q \in RowsOf(df) : q.location # NaNText}})
    IN [i \in DOMAIN keys |->
          LET G == TimeGroup(df, keys[i])
          IN [year |-> keys[i][1], month |-> keys[i][2],
              location |-> TextOrder[keys[i][3]],
              daily_new_cases |-> TimeseriesCases(df, G),
              transmission_rate |-> MeanOf(df, G, "transmission_rate"),
              vaccine_coverage |-> MeanOf(df, G, "vaccine_coverage"),
              resource_load |-> MeanOf(df, G, "resource_load"),
              date |-> Date(keys[i][1], keys[i][2])]]

\* (mutant) the season is not part of the key
RegionKeySeasonless(r) == <<TextRank(r.location), TextRank(r.ses), TextRank("Winter")>>

\* groupby(["location", "ses", "season"]) and its size(), merged on the keys
RegionKey(r) == <<TextRank(r.location), TextRank(r.ses), TextRank(r.season)>>
RegionKeyed(df) ==
    {r \in RowsOf(df) : r.location # NaNText /\ r.ses # NaNText /\ r.season # NaNText}
RegionGroup(df, k) == {r \in RegionKeyed(df) : RegionKey(r) = k}
RegionSesTable(df) ==
    LET keys == SortKeys({RegionKey(r) : r \in RegionKeyed(df)})
    IN [i \in DOMAIN keys |->
          LET G == RegionGroup(df, keys[i])
          IN [location |-> TextOrder[keys[i][1]], ses |-> TextOrder[keys[i][2]],
              season |-> TextOrder[keys[i][3]],
              daily_new_cases |-> Num(SumOf(df, G, "daily_new_cases")),
              vaccine_coverage |-> MeanOf(df, G, "vaccine_coverage"),
              resource_load |-> MeanOf(df, G, "resource_load"),
              age |-> MedianOf(df, G, "age"),
              sample_size |-> Count(df, G)]]

\* the categories of age_group, in their order
AgeGroupOrder == <<"Child (0-18)", "Adult (19-65)", "Elderly (66+)">>
AgeGroupRank(g) == CHOOSE i \in DOMAIN AgeGroupOrder : AgeGroupOrder[i] = g
\* .map({0: "Unvaccinated", 1: "Vaccinated"})
VaccinationLabel(v) ==
    IF v = 0 THEN "Unvaccinated" ELSE IF v = 10 THEN "Vaccinated" ELSE NaNText

\* dropna(subset=[...]), groupby([...], observed=True)
VaccineKey(r) ==
    <<r.vaccination_status.v, TextRank(r.immunity_level), AgeGroupRank(r.age_group)>>
\* (mutant) a vaccination status of 0 counts as missing
VaccineKeyedTruthy(df) ==
    {r \in RowsOf(df) : /\ IsNum(r.vaccination_status) /\ r.vaccination_status.v # 0
                        /\ r.immunity_level # NaNText
                        /\ r.age_group # NaNText}

VaccineKeyed(df) ==
    {r \in RowsOf(df) : /\ IsNum(r.vaccination_status)
                        /\ r.immunity_level # NaNText
                        /\ r.age_group # NaNText}
VaccineGroup(df, k) == {r \in VaccineKeyed(df) : VaccineKey(r) = k}
VaccineEffectTable(df) ==
    LET keys == SortKeys({VaccineKey(r) : r \in VaccineKeyed(df)})
    IN [i \in DOMAIN keys |->
          LET G == VaccineGroup(df, keys[i])
          IN [vaccination_status |-> VaccinationLabel(keys[i][1]),
              immunity_level |-> TextOrder[keys[i][2]],
              age_group |-> AgeGroupOrder[keys[i][3]],
              daily_new_cases |-> MeanOf(df, G, "daily_new_cases"),
              transmission_rate |-> MeanOf(df, G, "transmission_rate")]]

\* filtered_df["daily_new_cases"].sum()
TotalCases(df) == SumOf(df, RowsOf(df), "daily_new_cases")
\* np.round(filtered_df[field].fillna(0).mean(), 3)
RoundedMean(df, field) == RoundRatio(SumOf(df, RowsOf(df), field), NRows(df))
\* (mutant) the largest sum of a (location, ses, season) group
PeakGroupCases(df) ==
    LET keys == {RegionKey(r) : r \in RegionKeyed(df)}
        total == [k \in keys |-> SumOf(df, RegionGroup(df, k), "daily_new_cases")]
    IN IF RowsOf(df) = {} THEN 0
       ELSE CHOOSE m \in {total[k] : k \in keys} : \A k \in keys : total[k] <= m

\* filtered_df.groupby("season")["daily_new_cases"].sum().max()
PeakSeasonCases(df) ==
    LET seasons == {r.season : r \in RowsOf(df)} \ {NaNText}
        total == [s \in seasons |-> SumOf(df, Having(df, "season", s), "daily_new_cases")]
    IN IF RowsOf(df) = {} THEN 0
       ELSE CHOOSE m \in {total[s] : s \in seasons} : \A s \in seasons : total[s] <= m

KpiTable(df) ==
    <<[metric |-> "Total Cases", value |-> TotalCases(df), unit |-> "Cases"],
      [metric |-> "Average Vaccine Coverage",
       value |-> RoundedMean(df, "vaccine_coverage"), unit |-> "Ratio"],
      [metric |-> "Average Resource Load",
       value |-> RoundedMean(df, "resource_load"), unit |-> "Ratio"],
      [metric |-> "Peak Season Cases", value |-> PeakSeasonCases(df), unit |-> "Cases"]>>

\* the columns generate_analysis_tables subscripts, in the order it reaches them
AggregatedFieldOrder ==
    <<"year", "month", "location", "daily_new_cases", "transmission_rate",
      "vaccine_coverage", "resource_load", "ses", "season", "age",
      "vaccination_status", "immunity_level", "age_group">>

\* the bundle as a run that stopped at a missing column would leave it
generate_analysis_tables_partial(feature_df, yf, rf) ==
    LET absent == {i \in DOMAIN AggregatedFieldOrder :
                      AggregatedFieldOrder[i] \notin feature_df.cols}
        first == CHOOSE i \in absent : \A j \in absent : i <= j
        filtered_df == ApplyFilters(feature_df, yf, rf)
    IN IF (Truthy(yf) /\ "year" \notin feature_df.cols)
          \/ (Truthy(rf) /\ "location" \notin feature_df.cols)
       THEN Fail(Raise("KeyError", "year"))
       ELSE IF NothingLeft(filtered_df)
       THEN Fail(Raise("ValueError", "No data left after filtering"))
       ELSE IF absent # {} /\ first <= 7
       THEN Fail(Raise("KeyError", AggregatedFieldOrder[first]))
       ELSE IF absent # {} /\ first <= 10
       THEN Ok([timeseries |-> TimeseriesTable(filtered_df)])
       ELSE IF absent # {}
       THEN Ok([timeseries |-> TimeseriesTable(filtered_df),
                region_ses |-> RegionSesTable(filtered_df)])
       ELSE Ok([timeseries |-> TimeseriesTable(filtered_df),
                region_ses |-> RegionSesTable(filtered_df),
                vaccine_effect |-> VaccineEffectTable(filtered_df),
                kpi |-> KpiTable(filtered_df),
                raw_feature |-> filtered_df])

generate_analysis_tables(feature_df, yf, rf) ==
    LET absent == {i \in DOMAIN AggregatedFieldOrder :
                      AggregatedFieldOrder[i] \notin feature_df.cols}
        filtered_df == ApplyFilters(feature_df, yf, rf)
    IN IF Truthy(yf) /\ "year" \notin feature_df.cols
       THEN Fail(Raise("KeyError", "year"))
       ELSE IF Truthy(rf) /\ "location" \notin feature_df.cols
       THEN Fail(Raise("KeyError", "location"))
       ELSE IF NothingLeft(filtered_df)
       THEN Fail(Raise("ValueError", "No data left after filtering"))
       ELSE IF absent # {}
       THEN Fail(Raise("KeyError",
                       AggregatedFieldOrder[CHOOSE i \in absent : \A j \in absent : i <= j]))
       ELSE Ok([timeseries |-> TimeseriesTable(filtered_df),
                region_ses |-> RegionSesTable(filtered_df),
                vaccine_effect |-> VaccineEffectTable(filtered_df),
                kpi |-> KpiTable(filtered_df),
                raw_feature |-> filtered_df])

-----------------------------------------------------------------------------
(* Inputs *)

\* all bags with at most n distinct elements of S, each held Counts times
BagsOver(S, n, Counts) ==
    UNION {[D -> Counts] : D \in {E \in SUBSET S : Cardinality(E) <= n}}

\* a well-formed record of the dataset, keyed by the normalized names
BaseRow ==
    [date_of_onset |-> Date(2023, 1), location |-> "Urban", ses |-> "High",
     immunity_level |-> "Low", chronic_conditions |-> Whole(0),
     vaccination_status |-> Whole(1), daily_new_cases |-> Whole(3),
     hospital_capacity |-> Whole(100), hospitalization_requirement |-> Whole(20),
     age |-> Whole(70), resource_utilization |-> Whole(50),
     vaccine_coverage |-> Num(5)]

\* the row as a file with header cols spells it
RowFor(cols, r) == [c \in cols |-> r[NormalizeName(c)]]
FrameOf(cols, bag) ==
    MapRows(Frame(DOMAIN BaseRow, bag), cols, [r \in DOMAIN bag |-> RowFor(cols, r)])

\* cells a raw file can hold in place of the base row's, per field
RawCells ==
    [date_of_onset |-> {NaT},
     location |-> {NaNText, "rural"},
     ses |-> {NaNText},
     immunity_level |-> {},
     chronic_conditions |-> {Whole(2)},
     vaccination_status |-> {NaN, Num(5)},
     daily_new_cases |-> {Whole(0 - 1)},
     hospital_capacity |-> {NaN, Whole(0)},
     hospitalization_requirement |-> {NaN, Whole(0 - 5)},
     age |-> {NaN, Whole(130)}]
RawRows ==
    {BaseRow} \cup
    UNION {{[BaseRow EXCEPT ![fld] = c] : c \in RawCells[fld]} : fld \in DOMAIN RawCells}

NoFile == [exists |-> FALSE, readable |-> FALSE, table |-> NoFrame]
UnreadableFile == [exists |-> TRUE, readable |-> FALSE, table |-> NoFrame]
CsvFile(table) == [exists |-> TRUE, readable |-> TRUE, table |-> table]

\* a filter argument: None, or a list (its values)
NoFilter == [none |-> TRUE, vals |-> {}]
Filter(vals) == [none |-> FALSE, vals |-> vals]
YearFilters == {NoFilter, Filter({}), Filter({2023}), Filter({2025})}
RegionFilters == {NoFilter, Filter({}), Filter({"Urban"}), Filter({"Suburban"})}
NoArgs == [year_filter |-> NoFilter, region_filter |-> NoFilter]
FilterArgs == [year_filter : YearFilters, region_filter : RegionFilters]

NoTables == <<>>

\* the pickle file of save_analysis_tables: absent, or holding a bundle
NoOutput == [exists |-> FALSE, content |-> NoTables]
Pickled(tables) == [exists |-> TRUE, content |-> tables]
\* pd.DataFrame(): the empty table
EmptyTable == <<>>
\* the bundle an earlier run left in the pickle file
OldBundle ==
    [timeseries |-> EmptyTable, region_ses |-> EmptyTable,
     vaccine_effect |-> EmptyTable, kpi |-> EmptyTable, raw_feature |-> EmptyTable]
\* a page on which nothing has been rendered
Blank == [error |-> <<>>, page |-> "none", shown |-> <<>>]
\* no second call
NoCall ==
    [id |-> 0, args |-> NoArgs, pc |-> "none", raw_data |-> NoFrame,
     cleaned_data |-> NoFrame, feature_data |-> NoFrame, year_filter |-> NoFilter,
     region_filter |-> NoFilter, analysis_tables |-> NoTables,
     err |-> [type |-> "None", msg |-> <<>>, cause |-> <<>>]]
\* a run that is neither of the two scripts
Unattended ==
    /\ overwrite = TRUE
    /\ output_file = NoOutput
    /\ selected_page = "none"
    /\ screen = Blank
    /\ suspended = NoCall

\* clean_raw_data called on a raw frame (canonical header)
CleanInputs ==
    {FrameOf(REQUIRED_FIELDS, bag) : bag \in BagsOver(RawRows, MaxRows, {1, 2})}

\* raw frames whose rows differ in one numeric cell: missing, outside the
\* range of the field, or another value inside it
NumericCells ==
    [daily_new_cases |-> {NaN, Whole(0 - 1), Whole(8)},
     hospital_capacity |-> {NaN, Whole(0), Whole(50)},
     hospitalization_requirement |-> {NaN, Whole(0 - 5), Whole(40)},
     age |-> {NaN, Whole(130), Whole(45)}]
NumericRows ==
    {BaseRow} \cup
    UNION {{[BaseRow EXCEPT ![fld] = c] : c \in NumericCells[fld]} :
              fld \in DOMAIN NumericCells}
NumericInputs ==
    {FrameOf(REQUIRED_FIELDS, bag) :
        bag \in BagsOver(NumericRows, MaxNumericRows, {1, 2})}

\* cleaned frames handed to create_business_features: two regions in one
\* year and one region in two years, under both vaccination flags, and the
\* cells the resource-load rule distinguishes; with and without a
\* resource_utilization column
FeatureRows ==
    {[BaseRow EXCEPT !.location = l, !.vaccination_status = v] :
        l \in {"Urban", "Rural"}, v \in {Whole(0), Whole(1)}}
    \cup {[BaseRow EXCEPT !.date_of_onset = Date(2024, 7), !.vaccination_status = v] :
        v \in {Whole(0), Whole(1)}}
    \cup {[BaseRow EXCEPT !.hospital_capacity = c] : c \in {NaN, Whole(0), Whole(2)}}
    \cup {[BaseRow EXCEPT !.hospitalization_requirement = c] : c \in {NaN, Whole(0 - 5)}}
    \cup {[BaseRow EXCEPT !.resource_utilization = c] : c \in {NaN, Whole(0 - 20), Whole(700)}}
FeatureInputs ==
    {FrameOf(cols, bag) :
        cols \in {CoreFields, CoreFields \cup {"resource_utilization"}},
        bag \in BagsOver(FeatureRows, MaxRows, {1, 2})}

\* cleaned frames whose ages lie on and between the cut points, small and
\* of several hundred rows
AgeCells ==
    {Whole(0), Whole(18), Num(185), Whole(19), Whole(65), Num(655), Whole(66),
     Whole(120)}
AgeRows ==
    {BaseRow, [BaseRow EXCEPT !.vaccination_status = Whole(0)]}
    \cup {[BaseRow EXCEPT !.age = c] : c \in AgeCells}
AgeInputs ==
    {FrameOf(CoreFields, bag) : bag \in BagsOver(AgeRows, MaxAgeRows, {1, 600})}

\* feature sets handed to generate_analysis_tables: the Feature Builder's
\* output for cleaned records of several months, regions and case counts
AggregateRows ==
    {[BaseRow EXCEPT !.date_of_onset = d, !.location = l, !.daily_new_cases = c] :
        d \in {Date(2023, 1), Date(2023, 7), Date(2024, 1)},
        l \in {"Urban", "Rural"}, c \in {Whole(3), Whole(5)}}
AggregateInputs ==
    {create_business_features(FrameOf(CoreFields, bag)).val :
        bag \in BagsOver(AggregateRows, MaxFeatureRows, {1, 2})}

\* feature sets whose records differ in vaccination status, immunity level,
\* age and cases, in one region or the other
VaccineRows ==
    {[BaseRow EXCEPT !.vaccination_status = v, !.immunity_level = l, !.age = a,
                     !.daily_new_cases = c] :
        v \in {Whole(0), Whole(1)}, l \in {"Low", "High"},
        a \in {Whole(10), Whole(70)}, c \in {Whole(3), Whole(5)}}
    \cup {[BaseRow EXCEPT !.location = "Rural", !.vaccination_status = v] :
            v \in {Whole(0), Whole(1)}}
VaccineInputs ==
    {create_business_features(FrameOf(CoreFields, bag)).val :
        bag \in BagsOver(VaccineRows, MaxVaccineRows, {1, 2})}

\* the frame without one of its columns
DropCol(df, col) ==
    MapRows(df, df.cols \ {col},
            [r \in RowsOf(df) |-> [c \in (DOMAIN r) \ {col} |-> r[c]]])
\* frames handed to generate_analysis_tables by any caller: feature sets, and
\* frames that lack a column one of the tables is built from
LooseAggregateInputs ==
    AggregateInputs
    \cup {DropCol(df, col) : df \in AggregateInputs,
                             col \in {"year", "ses", "season", "age_group"}}
LooseFilterArgs ==
    {NoArgs,
     [year_filter |-> Filter({2023}), region_filter |-> Filter({"Urban"})],
     [year_filter |-> Filter({2025}), region_filter |-> NoFilter]}

\* headers of the source file: the canonical one, one required field absent,
\* one required field spelled in lower case, all in lower case, and an
\* additional column
Headers ==
    {REQUIRED_FIELDS}
    \cup {REQUIRED_FIELDS \ {fld} : fld \in REQUIRED_FIELDS}
    \cup {(REQUIRED_FIELDS \ {fld}) \cup {LowerOf[fld]} : fld \in REQUIRED_FIELDS}
    \cup {{LowerOf[fld] : fld \in REQUIRED_FIELDS}}
    \cup {REQUIRED_FIELDS \cup {"Resource_Utilization"}}
\* rows the loader tells apart: a date, no date, text that is no date
LoadRows == {BaseRow} \cup {[BaseRow EXCEPT !.date_of_onset = c] : c \in {NaT, TxtDate}}
\* the numbers of copies of a row in a file, around the minimum size
FileCounts == {1, min_data_rows - 1, min_data_rows}
LoadFiles ==
    {NoFile, UnreadableFile}
    \cup {CsvFile(FrameOf(cols, bag)) :
            cols \in Headers, bag \in BagsOver(LoadRows, MaxFileRows, FileCounts)}

\* the source files of the pipeline runs
PipelineHeaders ==
    {REQUIRED_FIELDS,
     REQUIRED_FIELDS \cup {"Resource_Utilization"},
     REQUIRED_FIELDS \cup {"Vaccine_Coverage"},
     REQUIRED_FIELDS \ {"Age"}}
PipelineRows ==
    {BaseRow,
     [BaseRow EXCEPT !.date_of_onset = Date(2024, 7)],
     [BaseRow EXCEPT !.date_of_onset = NaT],
     [BaseRow EXCEPT !.location = "rural"],
     [BaseRow EXCEPT !.vaccination_status = Whole(0)],
     [BaseRow EXCEPT !.age = Whole(130)]}
\* the numbers of copies of a row in such a file: one, or the minimum size
PipelineCounts == {1, min_data_rows}
PipelineFiles ==
    {NoFile, UnreadableFile}
    \cup {CsvFile(FrameOf(cols, bag)) :
            cols \in PipelineHeaders,
            bag \in BagsOver(PipelineRows, MaxFileRows, PipelineCounts)}

\* the source file two concurrent calls read, and their arguments
SharedRows ==
    {BaseRow,
     [BaseRow EXCEPT !.date_of_onset = Date(2024, 7)],
     [BaseRow EXCEPT !.location = "rural"]}
SharedFiles ==
    {NoFile}
    \cup {CsvFile(FrameOf(REQUIRED_FIELDS, bag)) :
            bag \in BagsOver(SharedRows, MaxSharedRows, PipelineCounts)}
ConcurrentArgs ==
    {NoArgs,
     [year_filter |-> Filter({2023}), region_filter |-> Filter({"Urban"})],
     [year_filter |-> Filter({2024}), region_filter |-> NoFilter]}

\* the source files and the arguments of the runs of save_analysis_tables
SaveFiles ==
    {NoFile}
    \cup {CsvFile(FrameOf(REQUIRED_FIELDS, bag)) :
            bag \in BagsOver(PipelineRows, MaxFileRows, PipelineCounts)}
SaveArgs ==
    {NoArgs, [year_filter |-> Filter({2025}), region_filter |-> NoFilter]}

-----------------------------------------------------------------------------
(* The run *)

EndToEndFailureBare(e) == Raise("RuntimeError", "End-to-end data processing failed")
\* get_processed_data: except Exception as e: raise RuntimeError(...) from e
EndToEndFailure(e) ==
    RaiseFrom("RuntimeError", "End-to-end data processing failed", e)
\* save_analysis_tables: except Exception as e: raise RuntimeError(...) from e
DataProcessingFailure(e) == RaiseFrom("RuntimeError", "Data processing failed", e)
\* the callers that run the stages through get_processed_data
PipelineEntries == {"get_processed_data", "save_analysis_tables", "app"}
\* (mutant) no except clause: the stage's exception leaves as it is
EscapingUnwrapped(e) == e

\* the exception as it leaves the entry function (app.py catches it at its
\* boundary, so there it is the exception get_processed_data raised)
Escaping(e) ==
    IF entry = "save_analysis_tables" THEN DataProcessingFailure(EndToEndFailure(e))
    ELSE IF entry \in PipelineEntries THEN EndToEndFailure(e)
    ELSE e
\* where the run goes after a stage returned
After(stage) == IF entry \in PipelineEntries THEN stage ELSE "returned"
\* where the run goes after the bundle is returned
AfterPipeline ==
    IF entry = "save_analysis_tables" THEN "save"
    ELSE IF entry = "app" THEN "validate"
    ELSE "returned"

Raised(e) ==
    /\ pc' = "raised"
    /\ err' = Escaping(e)

Load ==
    /\ pc = "load"
    /\ LET res == load_raw_dataset(file)
       IN IF res.ok
          THEN /\ raw_data' = res.val
               /\ pc' = After("clean")
               /\ err' = err
          ELSE /\ Raised(res.err)
               /\ raw_data' = raw_data
    /\ UNCHANGED <<entry, args, file, cleaned_data, feature_data, year_filter,
                   region_filter, analysis_tables, callers>>

Clean ==
    /\ pc = "clean"
    /\ LET res == clean_raw_data(raw_data)
       IN IF res.ok
          THEN /\ cleaned_data' = res.val
               /\ pc' = After("feature")
               /\ err' = err
          ELSE /\ Raised(res.err)
               /\ cleaned_data' = cleaned_data
    /\ UNCHANGED <<entry, args, file, raw_data, feature_data, year_filter,
                   region_filter, analysis_tables, callers>>

InitClean ==
    /\ entry = "clean_raw_data"
    /\ args = NoArgs
    /\ pc = "clean"
    /\ file = NoFile
    /\ raw_data \in CleanInputs
    /\ cleaned_data = NoFrame
    /\ feature_data = NoFrame
    /\ year_filter = NoFilter
    /\ region_filter = NoFilter
    /\ analysis_tables = NoTables
    /\ err = NoError
    /\ Unattended

SpecClean == InitClean /\ [][Clean]_vars

\* clean_raw_data called on a raw frame whose numeric cells vary
InitCleanNumeric ==
    /\ entry = "clean_raw_data"
    /\ args = NoArgs
    /\ pc = "clean"
    /\ file = NoFile
    /\ raw_data \in NumericInputs
    /\ cleaned_data = NoFrame
    /\ feature_data = NoFrame
    /\ year_filter = NoFilter
    /\ region_filter = NoFilter
    /\ analysis_tables = NoTables
    /\ err = NoError
    /\ Unattended

SpecCleanNumeric == InitCleanNumeric /\ [][Clean]_vars

Feature ==
    /\ pc = "feature"
    /\ LET res == create_business_features(cleaned_data)
       IN IF res.ok
          THEN /\ feature_data' = res.val
               /\ pc' = After("filters")
               /\ err' = err
          ELSE /\ Raised(res.err)
               /\ feature_data' = feature_data
    /\ UNCHANGED <<entry, args, file, raw_data, cleaned_data, year_filter,
                   region_filter, analysis_tables, callers>>

DefaultFilterFirst(df, field) ==
    Filter({CHOOSE v \in {r[field] : r \in RowsOf(df)} : TRUE})
\* feature_data[field].unique().tolist()
DefaultFilter(df, field) == Filter({r[field] : r \in RowsOf(df)})

\* get_processed_data, step 4: a filter that is None becomes the list of the
\* distinct values of the feature set
Defaults ==
    /\ pc = "filters"
    /\ year_filter' =
          IF year_filter.none THEN DefaultFilter(feature_data, "year") ELSE year_filter
    /\ region_filter' =
          IF region_filter.none THEN DefaultFilter(feature_data, "location")
          ELSE region_filter
    /\ pc' = "aggregate"
    /\ UNCHANGED <<entry, args, file, raw_data, cleaned_data, feature_data,
                   analysis_tables, err, callers>>

\* (mutant) the filtered rows are returned in place of the feature set
AggregateReturningFiltered ==
    /\ pc = "aggregate"
    /\ LET res == generate_analysis_tables(feature_data, year_filter, region_filter)
       IN IF res.ok
          THEN /\ analysis_tables' = res.val
               /\ feature_data' = res.val.raw_feature
               /\ pc' = AfterPipeline
               /\ err' = err
          ELSE /\ Raised(res.err)
               /\ analysis_tables' = analysis_tables
               /\ feature_data' = feature_data
    /\ UNCHANGED <<entry, args, file, raw_data, cleaned_data,
                   year_filter, region_filter, callers>>

\* step 5 and the return statement
Aggregate ==
    /\ pc = "aggregate"
    /\ LET res == generate_analysis_tables(feature_data, year_filter, region_filter)
       IN IF res.ok
          THEN /\ analysis_tables' = res.val
               /\ pc' = AfterPipeline
               /\ err' = err
          ELSE /\ Raised(res.err)
               /\ analysis_tables' = analysis_tables
    /\ UNCHANGED <<entry, args, file, raw_data, cleaned_data, feature_data,
                   year_filter, region_filter, callers>>

\* the state before any stage has run
Fresh ==
    /\ raw_data = NoFrame
    /\ cleaned_data = NoFrame
    /\ feature_data = NoFrame
    /\ analysis_tables = NoTables
    /\ err = NoError

InitFeature ==
    /\ entry = "create_business_features"
    /\ args = NoArgs
    /\ pc = "feature"
    /\ file = NoFile
    /\ raw_data = NoFrame
    /\ cleaned_data \in FeatureInputs
    /\ feature_data = NoFrame
    /\ year_filter = NoFilter
    /\ region_filter = NoFilter
    /\ analysis_tables = NoTables
    /\ err = NoError
    /\ Unattended

SpecFeature == InitFeature /\ [][Feature]_vars

InitAggregate ==
    /\ entry = "generate_analysis_tables"
    /\ args \in FilterArgs
    /\ pc = "aggregate"
    /\ file = NoFile
    /\ raw_data = NoFrame
    /\ cleaned_data = NoFrame
    /\ feature_data \in AggregateInputs
    /\ year_filter = args.year_filter
    /\ region_filter = args.region_filter
    /\ analysis_tables = NoTables
    /\ err = NoError
    /\ Unattended

SpecAggregate == InitAggregate /\ [][Aggregate]_vars

-----------------------------------------------------------------------------
(* save_analysis_tables.py *)

RefusesInverted(exists, ow) == exists /\ ow
\* if os.path.exists(output_full_path) and not overwrite
Refuses(exists, ow) == exists /\ ~ow

\* (mutant) the output file is opened for writing before the data is
\* processed
GuardOpening ==
    /\ pc = "guard"
    /\ IF Refuses(output_file.exists, overwrite)
       THEN /\ pc' = "raised"
            /\ err' = Raise("FileExistsError", "File already exists")
            /\ output_file' = output_file
       ELSE /\ pc' = "load"
            /\ err' = err
            /\ output_file' = Pickled(NoTables)
    /\ UNCHANGED <<entry, args, file, raw_data, cleaned_data, feature_data,
                   year_filter, region_filter, analysis_tables, overwrite,
                   selected_page, screen, suspended>>

\* steps 1 and 2: the output directory, then the overwrite guard
Guard ==
    /\ pc = "guard"
    /\ IF Refuses(output_file.exists, overwrite)
       THEN /\ pc' = "raised"
            /\ err' = Raise("FileExistsError", "File already exists")
       ELSE /\ pc' = "load"
            /\ err' = err
    /\ UNCHANGED <<entry, args, file, raw_data, cleaned_data, feature_data,
                   year_filter, region_filter, analysis_tables, callers>>

\* step 4: open(output_full_path, "wb") and pickle.dump; the file system
\* lets the file be written or not
Save ==
    /\ pc = "save"
    /\ \E writable \in BOOLEAN :
          IF writable
          THEN /\ output_file' = Pickled(analysis_tables)
               /\ pc' = "returned"
               /\ err' = err
          ELSE /\ output_file' = output_file
               /\ pc' = "raised"
               /\ err' = RaiseFrom("RuntimeError", "Failed to save analysis tables",
                                   Raise("PermissionError", "Permission denied"))
    /\ UNCHANGED <<entry, args, file, raw_data, cleaned_data, feature_data,
                   year_filter, region_filter, analysis_tables, overwrite,
                   selected_page, screen, suspended>>

InitSave ==
    /\ entry = "save_analysis_tables"
    /\ args \in SaveArgs
    /\ pc = "guard"
    /\ file \in SaveFiles
    /\ year_filter = args.year_filter
    /\ region_filter = args.region_filter
    /\ Fresh
    /\ overwrite \in BOOLEAN
    /\ output_file \in {NoOutput, Pickled(OldBundle)}
    /\ selected_page = "none"
    /\ screen = Blank
    /\ suspended = NoCall

NextSave == Guard \/ Load \/ Clean \/ Feature \/ Defaults \/ Aggregate \/ Save

SpecSave == InitSave /\ [][NextSave]_vars

-----------------------------------------------------------------------------
(* app.py and the page renderers of sections/ *)

\* the options of the navigation radio (their English halves)
Pages == {"Introduction", "Overview", "Deep Dives", "Conclusions"}
available_years == {2023, 2024}
available_regions == {"Urban", "Suburban", "Rural"}
\* what the two multiselects can hold: all options (the default), some, none
AppArgs ==
    [year_filter : {Filter(available_years), Filter({})},
     region_filter : {Filter(available_regions), Filter({"Suburban"})}]

\* (mutant) a key the aggregator does not produce is required too
required_keys_wider == {"kpi", "timeseries", "summary"}

required_keys == {"kpi", "timeseries"}
\* the keys a page renderer reads from analysis_tables
TablesRead(page) ==
    IF page = "Overview" THEN {"kpi", "timeseries"}
    ELSE IF page = "Deep Dives" THEN {"region_ses", "vaccine_effect"}
    ELSE {}

\* (mutant) the default is taken whether the key is there or not
GetDefault(tables, key, default) == default

\* analysis_tables.get(key, default)
Get(tables, key, default) ==
    IF key \in DOMAIN tables THEN tables[key] ELSE default

\* for key in required_keys: if key not in analysis_tables: ... = pd.DataFrame()
Validate ==
    /\ pc = "validate"
    /\ analysis_tables' =
          [key \in required_keys \ DOMAIN analysis_tables |-> EmptyTable]
          @@ analysis_tables
    /\ pc' = "render"
    /\ UNCHANGED <<entry, args, file, raw_data, cleaned_data, feature_data,
                   year_filter, region_filter, err, callers>>

\* the page dispatch: the renderer of the selected page runs and reads its
\* tables with .get
Render ==
    /\ pc = "render"
    /\ screen' =
          [screen EXCEPT
              !.page = selected_page,
              !.shown = [key \in TablesRead(selected_page) |->
                            Get(analysis_tables, key, EmptyTable)]]
    /\ pc' = "done"
    /\ UNCHANGED <<entry, args, file, raw_data, cleaned_data, feature_data,
                   year_filter, region_filter, analysis_tables, err, overwrite,
                   output_file, selected_page, suspended>>

\* (mutant) the handler shows the error and the script goes on
ShowErrorContinue ==
    /\ pc = "raised"
    /\ screen' = [screen EXCEPT !.error = <<"Data processing failed">> \o err.msg]
    /\ pc' = "render"
    /\ UNCHANGED <<entry, args, file, raw_data, cleaned_data, feature_data,
                   year_filter, region_filter, analysis_tables, err, overwrite,
                   output_file, selected_page, suspended>>

\* except Exception as e: st.error(...); st.stop()
ShowError ==
    /\ pc = "raised"
    /\ screen' = [screen EXCEPT !.error = <<"Data processing failed">> \o err.msg]
    /\ pc' = "stopped"
    /\ UNCHANGED <<entry, args, file, raw_data, cleaned_data, feature_data,
                   year_filter, region_filter, analysis_tables, err, overwrite,
                   output_file, selected_page, suspended>>

InitApp ==
    /\ entry = "app"
    /\ args \in AppArgs
    /\ pc = "load"
    /\ file \in SaveFiles
    /\ year_filter = args.year_filter
    /\ region_filter = args.region_filter
    /\ Fresh
    /\ overwrite = TRUE
    /\ output_file = NoOutput
    /\ selected_page \in Pages
    /\ screen = Blank
    /\ suspended = NoCall

NextApp ==
    Load \/ Clean \/ Feature \/ Defaults \/ Aggregate \/ Validate \/ Render
    \/ ShowError

SpecApp == InitApp /\ [][NextApp]_vars

\* the two callers of get_processed_data, each running its own script
InitCallers == InitApp \/ InitSave
NextCallers ==
    \/ entry = "app" /\ NextApp
    \/ entry = "save_analysis_tables" /\ NextSave
SpecCallers == InitCallers /\ [][NextCallers]_vars

-----------------------------------------------------------------------------
(* Two calls of get_processed_data in two threads *)

\* the locals of the call that is running
Running ==
    [id |-> 3 - suspended.id, args |-> args, pc |-> pc, raw_data |-> raw_data,
     cleaned_data |-> cleaned_data, feature_data |-> feature_data,
     year_filter |-> year_filter, region_filter |-> region_filter,
     analysis_tables |-> analysis_tables, err |-> err]

\* (mutant) year_filter and region_filter are module globals: a thread finds
\* in them what the other thread left there
ResumedSharingFilters(call) ==
    [call EXCEPT !.year_filter = year_filter, !.region_filter = region_filter]

\* the locals a thread finds when it is scheduled again: its own; the
\* functions of prep.py and io.py keep nothing outside their locals
Resumed(call) == call

\* the scheduler takes the running thread off and puts the other one on
Switch ==
    /\ suspended.pc # "none"
    /\ LET call == Resumed(suspended)
       IN /\ args' = call.args
          /\ pc' = call.pc
          /\ raw_data' = call.raw_data
          /\ cleaned_data' = call.cleaned_data
          /\ feature_data' = call.feature_data
          /\ year_filter' = call.year_filter
          /\ region_filter' = call.region_filter
          /\ analysis_tables' = call.analysis_tables
          /\ err' = call.err
    /\ suspended' = Running
    /\ UNCHANGED <<entry, file, overwrite, output_file, selected_page, screen>>

InitConcurrent ==
    /\ entry = "get_processed_data"
    /\ args \in ConcurrentArgs
    /\ pc = "load"
    /\ file \in SharedFiles
    /\ year_filter = args.year_filter
    /\ region_filter = args.region_filter
    /\ Fresh
    /\ overwrite = TRUE
    /\ output_file = NoOutput
    /\ selected_page = "none"
    /\ screen = Blank
    /\ \E second \in ConcurrentArgs :
          suspended = [NoCall EXCEPT !.id = 2, !.args = second, !.pc = "load",
                                     !.year_filter = second.year_filter,
                                     !.region_filter = second.region_filter]

NextConcurrent == Load \/ Clean \/ Feature \/ Defaults \/ Aggregate \/ Switch

SpecConcurrent == InitConcurrent /\ [][NextConcurrent]_vars

-----------------------------------------------------------------------------
\* create_business_features called again, on a frame it returned
InitRerun ==
    /\ entry = "create_business_features"
    /\ args \in LooseFilterArgs
    /\ pc = "feature"
    /\ file = NoFile
    /\ raw_data = NoFrame
    /\ cleaned_data \in AggregateInputs
    /\ feature_data = NoFrame
    /\ year_filter = args.year_filter
    /\ region_filter = args.region_filter
    /\ analysis_tables = NoTables
    /\ err = NoError
    /\ Unattended

SpecRerun == InitRerun /\ [][Feature]_vars

\* create_business_features called on cleaned frames of all ages
InitAgeBands ==
    /\ entry = "create_business_features"
    /\ args = NoArgs
    /\ pc = "feature"
    /\ file = NoFile
    /\ raw_data = NoFrame
    /\ cleaned_data \in AgeInputs
    /\ feature_data = NoFrame
    /\ year_filter = NoFilter
    /\ region_filter = NoFilter
    /\ analysis_tables = NoTables
    /\ err = NoError
    /\ Unattended

SpecAgeBands == InitAgeBands /\ [][Feature]_vars

\* generate_analysis_tables called on feature sets of several vaccine groups
InitVaccineEffect ==
    /\ entry = "generate_analysis_tables"
    /\ args \in LooseFilterArgs
    /\ pc = "aggregate"
    /\ file = NoFile
    /\ raw_data = NoFrame
    /\ cleaned_data = NoFrame
    /\ feature_data \in VaccineInputs
    /\ year_filter = args.year_filter
    /\ region_filter = args.region_filter
    /\ analysis_tables = NoTables
    /\ err = NoError
    /\ Unattended

SpecVaccineEffect == InitVaccineEffect /\ [][Aggregate]_vars

\* generate_analysis_tables called on any frame
InitAggregateLoose ==
    /\ entry = "generate_analysis_tables"
    /\ args \in LooseFilterArgs
    /\ pc = "aggregate"
    /\ file = NoFile
    /\ raw_data = NoFrame
    /\ cleaned_data = NoFrame
    /\ feature_data \in LooseAggregateInputs
    /\ year_filter = args.year_filter
    /\ region_filter = args.region_filter
    /\ analysis_tables = NoTables
    /\ err = NoError
    /\ Unattended

SpecAggregateLoose == InitAggregateLoose /\ [][Aggregate]_vars

InitLoad ==
    /\ entry = "load_raw_dataset"
    /\ args = NoArgs
    /\ pc = "load"
    /\ file \in LoadFiles
    /\ year_filter = NoFilter
    /\ region_filter = NoFilter
    /\ Fresh
    /\ Unattended

SpecLoad == InitLoad /\ [][Load]_vars

\* get_processed_data(year_filter, region_filter)
Init ==
    /\ entry = "get_processed_data"
    /\ args \in FilterArgs
    /\ pc = "load"
    /\ file \in PipelineFiles
    /\ year_filter = args.year_filter
    /\ region_filter = args.region_filter
    /\ Fresh
    /\ Unattended

Next == Load \/ Clean \/ Feature \/ Defaults \/ Aggregate

Spec == Init /\ [][Next]_vars

-----------------------------------------------------------------------------
(* Properties of clean_raw_data *)

CleanedRecord(r) ==
    /\ IsDate(r.date_of_onset)
    /\ \A fld \in {"location", "ses", "immunity_level"} : r[fld] # NaNText
    /\ \A fld \in {"chronic_conditions", "vaccination_status", "daily_new_cases",
                   "hospital_capacity", "hospitalization_requirement", "age"} :
          IsNum(r[fld])
    /\ r.chronic_conditions.v \in {0, 10}
    /\ r.vaccination_status.v \in {0, 10}
    /\ r.age.v >= 0 /\ r.age.v <= 1200
    /\ r.daily_new_cases.v >= 0
    /\ r.hospital_capacity.v > 0
    /\ r.hospitalization_requirement.v > 0

\* C1: whenever clean_raw_data returns, every returned row has the ten core
\* fields non-null, both binary fields in {0,1}, age in [0,120], cases >= 0,
\* capacity > 0 and requirement > 0 (so no row with capacity 0 is returned).
C1_CleanedRecordsValid ==
    \A r \in RowsOf(cleaned_data) : CleanedRecord(r)

\* C1 witness: the cleaner returned rows for an input holding a row with
\* hospital_capacity = 0 and a row with a missing capacity.
C1_Witness ==
    /\ entry = "clean_raw_data"
    /\ pc = "returned"
    /\ NRows(cleaned_data) > 0
    /\ \E r \in RowsOf(raw_data) : r["Hospital_Capacity"] = Whole(0)
    /\ \E r \in RowsOf(raw_data) : r["Hospital_Capacity"] = NaN

\* a raw row that a rule removes whatever the other rows are: its date does
\* not parse, a binary cell is a number that does not truncate to 0 or 1, or
\* a numeric cell is a number outside the range of its field
RejectedByDate(r) == ~IsDate(r["Date_of_Onset"])
RejectedByBinary(r) ==
    \E fld \in {"Chronic_Conditions", "Vaccination_Status"} :
        IsNum(r[fld]) /\ (r[fld].v <= 0 - 10 \/ r[fld].v >= 20)
RejectedByOutlier(r) ==
    \/ IsNum(r["Daily_New_Cases"]) /\ r["Daily_New_Cases"].v < 0
    \/ IsNum(r["Hospital_Capacity"]) /\ r["Hospital_Capacity"].v <= 0
    \/ IsNum(r["Hospitalization_Requirement"])
          /\ r["Hospitalization_Requirement"].v <= 0
    \/ IsNum(r["Age"]) /\ (r["Age"].v < 0 \/ r["Age"].v > 1200)
Rejected(r) == RejectedByDate(r) \/ RejectedByBinary(r) \/ RejectedByOutlier(r)

BinaryHeaders == {"Chronic_Conditions", "Vaccination_Status"}
\* a raw row with a binary cell that is a number other than 0 and 1
OutsideBinary(r) ==
    \E fld \in BinaryHeaders : IsNum(r[fld]) /\ r[fld].v \notin {0, 10}
\* a raw row that differs from a valid one by missing binary cells only
MissingBinaryOnly(r) ==
    /\ ~Rejected(r)
    /\ \E fld \in BinaryHeaders : r[fld] = NaN
    /\ \A fld \in REQUIRED_FIELDS \ BinaryHeaders : r[fld] = BaseRow[NormalizeName(fld)]

\* C15: a row whose binary cells are missing is kept with 0 in their place,
\* and every row with a binary cell that is a number outside {0,1}
\* (0.5 and 1.7 as well as 2 and -1) is dropped: the cleaner returns no more
\* rows than the input has rows without such a cell.
C15_BinaryOutsideDropped ==
    entry = "clean_raw_data" /\ pc # "clean" =>
        /\ (\E r \in RowsOf(raw_data) : MissingBinaryOnly(r)) =>
              /\ pc = "returned"
              /\ \E r \in RowsOf(cleaned_data) :
                    r.chronic_conditions = Whole(0) \/ r.vaccination_status = Whole(0)
        /\ pc = "returned" =>
              NRows(cleaned_data)
                <= Count(raw_data, {r \in RowsOf(raw_data) : ~OutsideBinary(r)})
        /\ (\A r \in RowsOf(raw_data) : OutsideBinary(r)) => pc = "raised"

NumericHeaders ==
    {"Daily_New_Cases", "Hospital_Capacity", "Hospitalization_Requirement", "Age"}
\* the fixed defaults and the ranges the fields are to have
StatedDefault ==
    [Daily_New_Cases |-> Whole(0), Hospital_Capacity |-> Whole(100),
     Hospitalization_Requirement |-> Whole(10), Age |-> Whole(35)]
StatedRange(h, v) ==
    CASE h = "Daily_New_Cases" -> v >= 0
      [] h = "Age" -> 0 <= v /\ v <= 1200
      [] OTHER -> v > 0
\* the raw rows differ from the valid row in column h only
VariesOnly(h) ==
    \A r \in RowsOf(raw_data) :
        \A c \in REQUIRED_FIELDS \ {h} : r[c] = BaseRow[NormalizeName(c)]
PresentIn(h) == {r \in RowsOf(raw_data) : IsNum(r[h])}
\* the median of the present values of column h: the midpoint of the lower
\* and the upper middle value
LowerMiddle(h) ==
    LET vals == {r[h].v : r \in PresentIn(h)}
        half(v) == 2 * Count(raw_data, {r \in PresentIn(h) : r[h].v <= v})
                     >= Count(raw_data, PresentIn(h))
    IN CHOOSE v \in vals : half(v) /\ \A w \in vals : half(w) => v <= w
UpperMiddle(h) ==
    LET vals == {r[h].v : r \in PresentIn(h)}
        half(v) == 2 * Count(raw_data, {r \in PresentIn(h) : r[h].v >= v})
                     >= Count(raw_data, PresentIn(h))
    IN CHOOSE v \in vals : half(v) /\ \A w \in vals : half(w) => w <= v
StatedFill(h) ==
    IF PresentIn(h) = {} THEN StatedDefault[h]
    ELSE Num((LowerMiddle(h) + UpperMiddle(h)) \div 2)
Filled(h, r) == IF IsNum(r[h]) THEN r[h] ELSE StatedFill(h)
\* how many rows are to come out with x in column h
StatedCount(h, x) ==
    IF StatedRange(h, x.v)
    THEN Count(raw_data, {r \in RowsOf(raw_data) : Filled(h, r) = x})
    ELSE 0

\* C16: when the rows differ in one numeric column only, a missing cell of
\* that column is filled with the median of the present cells, or with the
\* fixed default (cases 0, capacity 100, requirement 10, age 35) when none
\* is present, and the outlier rule is applied to the filled column: the
\* cleaner returns exactly the filled rows that are in range, and raises
\* when there is none.
C16_FillThenOutlier ==
    entry = "clean_raw_data" /\ pc # "clean" =>
        \A h \in NumericHeaders : VariesOnly(h) =>
            LET fld == NormalizeName(h)
                out == {Filled(h, r) : r \in RowsOf(raw_data)}
            IN IF \A x \in out : ~StatedRange(h, x.v)
               THEN pc = "raised"
               ELSE /\ pc = "returned"
                    /\ \A x \in out \cup {r[fld] : r \in RowsOf(cleaned_data)} :
                          Count(cleaned_data, Having(cleaned_data, fld, x))
                            = StatedCount(h, x)

\* C16 witness: the age column is entirely missing (in more than one row)
\* and the cleaner returned the rows with age 35.
C16_Witness ==
    /\ entry = "clean_raw_data"
    /\ pc = "returned"
    /\ NRows(raw_data) > 1
    /\ \A r \in RowsOf(raw_data) : r["Age"] = NaN
    /\ NRows(cleaned_data) = NRows(raw_data)
    /\ \A r \in RowsOf(cleaned_data) : r.age = Whole(35)

\* the field rules of the cleaner applied in the opposite order: the numeric
\* fields from age to daily_new_cases, then the binary and the categorical
\* fields, the date last
CleanedInReverse ==
    LET named == StandardizeNames(raw_data)
        numeric ==
            CleanNumeric(CleanNumeric(CleanNumeric(CleanNumeric(named,
                "age"), "hospitalization_requirement"),
                "hospital_capacity"), "daily_new_cases")
        binary ==
            CleanBinary(CleanBinary(numeric,
                "vaccination_status"), "chronic_conditions")
        categorical ==
            CleanCategorical(CleanCategorical(CleanCategorical(binary,
                "immunity_level"), "ses"), "location")
    IN CleanDates(categorical)

\* C23: the field rules of the cleaner give the same table in whatever order
\* they are applied: the cleaner's result is the result of the rules taken
\* in the opposite order of fields, and it raises exactly when that is empty.
C23_RulesOrderIndependent ==
    entry = "clean_raw_data" /\ pc # "clean" =>
        IF NRows(CleanedInReverse) = 0
        THEN pc = "raised"
        ELSE pc = "returned" /\ cleaned_data = CleanedInReverse

-----------------------------------------------------------------------------
(* Properties of create_business_features *)

\* C2: after create_business_features, resource_load of every row is a
\* number within [0, 5], whatever the requirement, capacity or
\* resource_utilization cells of the input are (negative or missing too).
C2_ResourceLoadInRange ==
    \A r \in RowsOf(feature_data) :
        IsNum(r.resource_load) /\ r.resource_load.v >= 0 /\ r.resource_load.v <= 5000

\* C3: after create_business_features, the rows of one (year, location) pair
\* carry one vaccine_coverage, the share of rows with vaccination_status = 1
\* in the pair's rows, to 3 decimals (a nearest thousandth of the share).
C3_CoverageIsGroupShare ==
    \A r \in RowsOf(feature_data) :
        LET group == {q \in RowsOf(feature_data) :
                         q.year = r.year /\ q.location = r.location}
            size == SumFn(feature_data.rows, group)
            vaccinated == SumFn(feature_data.rows,
                                {q \in group : q.vaccination_status.v = 10})
            gap == 1000 * vaccinated - r.vaccine_coverage.v * size
        IN /\ \A q \in group : q.vaccine_coverage = r.vaccine_coverage
           /\ 2 * gap <= size
           /\ 2 * gap >= 0 - size

\* C3 witness: a returned feature frame with a mixed group whose share is
\* rounded (1/3 -> 0.333) next to another year of the same location.
C3_Witness ==
    /\ entry = "create_business_features"
    /\ pc = "returned"
    /\ \E r, q \in RowsOf(feature_data) :
          /\ r.location = q.location
          /\ r.year # q.year
          /\ r.vaccine_coverage = Num(333)
          /\ q.vaccine_coverage = Num(1000)

-----------------------------------------------------------------------------
(* Properties of generate_analysis_tables *)

\* C4: whenever generate_analysis_tables returns, the value of the kpi row
\* 'Total Cases' is the sum of the daily_new_cases column of the timeseries
\* table of the same bundle.
C4_TotalCasesIsTimeseriesSum ==
    entry = "generate_analysis_tables" /\ pc = "returned" =>
        LET timeseries == analysis_tables.timeseries
            kpi == analysis_tables.kpi
        IN /\ kpi[1].metric = "Total Cases"
           /\ kpi[1].value =
                 SumFn([i \in DOMAIN timeseries |-> timeseries[i].daily_new_cases.v],
                       DOMAIN timeseries)

\* C4 witness: a returned bundle under a year filter that excludes a
\* record, with a timeseries row that sums two records of 5 cases.
C4_Witness ==
    /\ entry = "generate_analysis_tables"
    /\ pc = "returned"
    /\ args.year_filter = Filter({2023})
    /\ NRows(analysis_tables.raw_feature) < NRows(feature_data)
    /\ \E r \in RowsOf(analysis_tables.raw_feature) :
          /\ r.daily_new_cases = Whole(5)
          /\ analysis_tables.raw_feature.rows[r] = 2
    /\ \E i \in DOMAIN analysis_tables.timeseries :
          analysis_tables.timeseries[i].daily_new_cases = Whole(10)

\* the rows the filter pair of the call selects: a filter that is None or an
\* empty list does not restrict its dimension
SelectedRows ==
    {r \in RowsOf(feature_data) :
        /\ (args.year_filter.none \/ args.year_filter.vals = {}
               \/ r.year \in args.year_filter.vals)
        /\ (args.region_filter.none \/ args.region_filter.vals = {}
               \/ r.location \in args.region_filter.vals)}

\* C5: generate_analysis_tables keeps exactly the feature rows whose year is
\* in the year filter and whose location is in the region filter, a filter
\* that is empty or None keeping every value; when any row is kept the
\* function returns, and raw_feature is exactly the kept rows.
C5_RawFeatureIsFilteredRows ==
    entry = "generate_analysis_tables" /\ pc # "aggregate" /\ SelectedRows # {} =>
        /\ pc = "returned"
        /\ analysis_tables.raw_feature.cols = feature_data.cols
        /\ RowsOf(analysis_tables.raw_feature) = SelectedRows
        /\ \A r \in SelectedRows :
              analysis_tables.raw_feature.rows[r] = feature_data.rows[r]

\* C5 witness: a returned bundle where the year filter and the region filter
\* each exclude a row and a row passes both.
C5_Witness ==
    /\ entry = "generate_analysis_tables"
    /\ pc = "returned"
    /\ args = [year_filter |-> Filter({2023}), region_filter |-> Filter({"Urban"})]
    /\ \E r \in RowsOf(feature_data) : r.year = 2024
    /\ \E r \in RowsOf(feature_data) : r.location = "Rural"
    /\ NRows(analysis_tables.raw_feature) > 0

\* C6: when the filters select no row of the feature set, the call ends in a
\* ValueError (no data left after filtering) and no table is produced.
C6_EmptySelectionRaises ==
    entry = "generate_analysis_tables" /\ pc # "aggregate" /\ SelectedRows = {} =>
        /\ pc = "raised"
        /\ err = Raise("ValueError", "No data left after filtering")
        /\ analysis_tables = NoTables

\* C6 witness: year filter [2025] on a feature set covering 2023 and 2024.
C6_Witness ==
    /\ entry = "generate_analysis_tables"
    /\ pc = "raised"
    /\ args.year_filter = Filter({2025})
    /\ {r.year : r \in RowsOf(feature_data)} = {2023, 2024}

-----------------------------------------------------------------------------
(* Properties of get_processed_data *)

\* C7: when get_processed_data is called with a filter that is None, the
\* filter handed to the aggregator is the list of all distinct values of that
\* dimension in the feature set, and raw_feature of the returned bundle holds
\* every feature row that the other filter admits.
C7_AbsentFilterKeepsAll ==
    entry = "get_processed_data" /\ pc \in {"aggregate", "returned"} =>
        /\ args.year_filter.none =>
              /\ year_filter = Filter({r.year : r \in RowsOf(feature_data)})
              /\ pc = "returned" =>
                    \A r \in RowsOf(feature_data) :
                        (region_filter.vals = {} \/ r.location \in region_filter.vals) =>
                            /\ r \in RowsOf(analysis_tables.raw_feature)
                            /\ analysis_tables.raw_feature.rows[r] = feature_data.rows[r]
        /\ args.region_filter.none =>
              /\ region_filter = Filter({r.location : r \in RowsOf(feature_data)})
              /\ pc = "returned" =>
                    \A r \in RowsOf(feature_data) :
                        (year_filter.vals = {} \/ r.year \in year_filter.vals) =>
                            /\ r \in RowsOf(analysis_tables.raw_feature)
                            /\ analysis_tables.raw_feature.rows[r] = feature_data.rows[r]

\* C7 witness: a returned run called without a year filter and with a region
\* filter, on data of two years: both years are in raw_feature.
C7_Witness ==
    /\ entry = "get_processed_data"
    /\ pc = "returned"
    /\ args.year_filter.none
    /\ args.region_filter = Filter({"Urban"})
    /\ year_filter = Filter({2023, 2024})
    /\ {r.year : r \in RowsOf(analysis_tables.raw_feature)} = {2023, 2024}

-----------------------------------------------------------------------------
(* Properties of load_raw_dataset *)

\* C8: load_raw_dataset ends in FileNotFoundError when the file is absent, in
\* ValueError when a required field (Date_of_Onset too) is missing from the
\* header, in ValueError when the table has fewer than 500 rows, and accepts a
\* table of exactly 500 rows with all ten fields.
C8_LoaderErrors ==
    entry = "load_raw_dataset" /\ pc # "load" =>
        /\ ~file.exists => pc = "raised" /\ err.type = "FileNotFoundError"
        /\ file.readable /\ REQUIRED_FIELDS \ file.table.cols # {} =>
              pc = "raised" /\ err.type = "ValueError"
        /\ file.readable /\ NRows(file.table) < 500 =>
              pc = "raised" /\ err.type = "ValueError"
        /\ file.readable /\ REQUIRED_FIELDS \subseteq file.table.cols
               /\ NRows(file.table) = 500 /\ (\A r \in RowsOf(file.table) : IsDate(r["Date_of_Onset"])) =>
              pc = "returned" /\ raw_data = file.table

\* C9: a file whose ten headers differ from the canonical names only in
\* letter case, with enough rows, is accepted by the loader.
C9_HeaderCaseAccepted ==
    entry = "load_raw_dataset" /\ pc # "load" /\ file.readable
        /\ Cardinality(file.table.cols) = Cardinality(REQUIRED_FIELDS)
        /\ {LowerOf[fld] : fld \in REQUIRED_FIELDS}
              = {IF c \in REQUIRED_FIELDS THEN LowerOf[c] ELSE c : c \in file.table.cols}
        /\ NRows(file.table) >= 500
        /\ (\A r \in RowsOf(file.table) : IsDate(r[CHOOSE c \in file.table.cols :
                                                      c \in {"Date_of_Onset", "date_of_onset"}]))
    => pc = "returned"

-----------------------------------------------------------------------------
(* Properties of the failures of get_processed_data *)

\* the stage of get_processed_data that has not delivered its result
FailedStage ==
    IF raw_data = NoFrame THEN "load"
    ELSE IF cleaned_data = NoFrame THEN "clean"
    ELSE IF feature_data = NoFrame THEN "feature"
    ELSE "aggregate"
\* the result of each stage on what it was given
StageResult ==
    [load |-> load_raw_dataset(file),
     clean |-> clean_raw_data(raw_data),
     feature |-> create_business_features(cleaned_data),
     aggregate |-> generate_analysis_tables(feature_data, year_filter, region_filter)]
\* the context the entry point puts in front of the failure of a missing file
LoadFailureContext == Head(EndToEndFailure(load_raw_dataset(NoFile).err).msg)

\* C10 (amended): a failure of any stage leaves get_processed_data as a
\* RuntimeError whose message is the fixed context "End-to-end data
\* processing failed" followed by the original message, chained to the
\* original error, and no bundle is returned.
C10_FailureWrapped ==
    entry = "get_processed_data" /\ pc = "raised" =>
        LET original == StageResult[FailedStage].err
        IN /\ ~StageResult[FailedStage].ok
           /\ err.type = "RuntimeError"
           /\ err.msg = <<"End-to-end data processing failed">> \o original.msg
           /\ Head(err.cause) = original.type
           /\ analysis_tables = NoTables

\* C10 witness: a run whose feature stage failed, cleaning having succeeded.
C10_Witness ==
    /\ entry = "get_processed_data"
    /\ pc = "raised"
    /\ FailedStage = "feature"
    /\ NRows(cleaned_data) > 0

\* C10 as stated: the context added to a failure names the stage that
\* failed, so the context of a failure past the load stage is not the
\* context of a load failure; the original message follows it and no bundle
\* is returned.
C10_ContextNamesStage ==
    entry = "get_processed_data" /\ pc = "raised" =>
        /\ FailedStage # "load" => Head(err.msg) # LoadFailureContext
        /\ Tail(err.msg) = StageResult[FailedStage].err.msg
        /\ analysis_tables = NoTables

-----------------------------------------------------------------------------
(* Atomicity of the bundle *)

\* the names of the tables of a bundle
BundleKeys == {"timeseries", "region_ses", "vaccine_effect", "kpi", "raw_feature"}

\* C11: generate_analysis_tables either returns a bundle holding all five
\* tables or raises and returns nothing; no bundle holds only some tables.
C11_BundleIsWhole ==
    entry = "generate_analysis_tables" =>
        /\ analysis_tables = NoTables \/ DOMAIN analysis_tables = BundleKeys
        /\ pc = "returned" => DOMAIN analysis_tables = BundleKeys
        /\ pc = "raised" => analysis_tables = NoTables

\* C11 witness: the call raised on a frame without the ses column, for
\* which the timeseries table can be built and the region_ses table cannot.
C11_Witness ==
    /\ entry = "generate_analysis_tables"
    /\ pc = "raised"
    /\ err = Raise("KeyError", "ses")
    /\ "ses" \notin feature_data.cols
    /\ analysis_tables = NoTables

-----------------------------------------------------------------------------
(* Properties of save_analysis_tables *)

\* C12: with overwrite = false and the output file present, the only step
\* save_analysis_tables takes raises FileExistsError: no stage of the
\* pipeline has produced anything and the file is what it was.
C12_ExistingFileGuarded ==
    [][(entry = "save_analysis_tables" /\ ~overwrite /\ output_file.exists) =>
          /\ pc' = "raised"
          /\ err' = Raise("FileExistsError", "File already exists")
          /\ output_file' = output_file
          /\ raw_data' = NoFrame
          /\ cleaned_data' = NoFrame
          /\ feature_data' = NoFrame
          /\ analysis_tables' = NoTables]_vars

\* C12 witness: the call refused to replace the old bundle although the
\* source file would have gone through the pipeline.
C12_Witness ==
    /\ entry = "save_analysis_tables"
    /\ pc = "raised"
    /\ ~overwrite
    /\ err.type = "FileExistsError"
    /\ output_file = Pickled(OldBundle)
    /\ file.exists /\ NRows(file.table) >= min_data_rows
    /\ raw_data = NoFrame

-----------------------------------------------------------------------------
(* Shape of the feature set *)

\* C17: create_business_features returns as many rows as it was given, and
\* in every returned row year, month, season, age_group, vaccine_coverage,
\* resource_load and transmission_rate are defined, also when the input has
\* a resource_utilization column that is missing in some rows.  The input
\* rows are records as the cleaner returns them.
C17_ShapeKeptFieldsDefined ==
    entry = "create_business_features" /\ pc # "feature"
      /\ cleaned_data \in FeatureInputs
      /\ (\A r \in RowsOf(cleaned_data) : CleanedRecord(r)) =>
        /\ pc = "returned"
        /\ NRows(feature_data) = NRows(cleaned_data)
        /\ \A r \in RowsOf(feature_data) :
              /\ r.year \in Int /\ r.month \in 1..12
              /\ r.season # NaNText /\ r.age_group # NaNText
              /\ IsNum(r.vaccine_coverage)
              /\ IsNum(r.resource_load)
              /\ IsNum(r.transmission_rate)

-----------------------------------------------------------------------------
(* Age bands *)

AgeBands == {"Child (0-18)", "Adult (19-65)", "Elderly (66+)"}
\* 600 rows dated 2023, region Urban, age 70, vaccination 1
Scenario600(df) ==
    /\ NRows(df) = 600
    /\ \A r \in RowsOf(df) :
          /\ r.date_of_onset.y = 2023 /\ r.location = "Urban"
          /\ r.age = Whole(70) /\ r.vaccination_status = Whole(1)

\* C18: for cleaned records create_business_features gives every row one of
\* the three age groups: Child for ages 0..18, Adult for ages 19..65,
\* Elderly for ages 66..120 (ages in tenths, non-integer ones included); and
\* 600 rows of 2023, Urban, age 70, vaccination 1 all come out as Elderly
\* with vaccine_coverage 1.0.
C18_AgeBands ==
    entry = "create_business_features" /\ pc # "feature"
      /\ (\A r \in RowsOf(cleaned_data) : CleanedRecord(r)) =>
        /\ pc = "returned"
        /\ \A r \in RowsOf(feature_data) :
              /\ r.age_group \in AgeBands
              /\ 0 <= r.age.v /\ r.age.v <= 180 => r.age_group = "Child (0-18)"
              /\ 190 <= r.age.v /\ r.age.v <= 650 => r.age_group = "Adult (19-65)"
              /\ 660 <= r.age.v /\ r.age.v <= 1200 => r.age_group = "Elderly (66+)"
        /\ Scenario600(cleaned_data) =>
              /\ NRows(feature_data) = 600
              /\ \A r \in RowsOf(feature_data) :
                    /\ r.age_group = "Elderly (66+)"
                    /\ r.year = 2023 /\ r.location = "Urban"
                    /\ r.vaccine_coverage = Num(1000)

\* C18 witness: the feature builder returned the 600 rows of the scenario.
C18_Witness ==
    /\ entry = "create_business_features"
    /\ pc = "returned"
    /\ Scenario600(cleaned_data)
    /\ NRows(feature_data) = 600
    /\ \A r \in RowsOf(feature_data) : r.age_group = "Elderly (66+)"

-----------------------------------------------------------------------------
(* Re-running the feature builder *)

\* C13: create_business_features run on a frame that is its own output
\* returns, and the aggregator gives for the new frame, under the same
\* filters, the tables it gives for the frame of the first run.
C13_RerunIdentical ==
    entry = "create_business_features" /\ pc # "feature" =>
        /\ pc = "returned"
        /\ generate_analysis_tables(feature_data, year_filter, region_filter)
             = generate_analysis_tables(cleaned_data, year_filter, region_filter)

-----------------------------------------------------------------------------
(* Properties of the presentation entry *)

\* C19: in app.py, once get_processed_data has raised, the only step is the
\* handler's: it shows the error message and stops the script, so no page
\* renderer runs in that run; a run that stopped shows the message and no
\* page, and a page is shown only in runs without an error.
C19_ErrorHaltsRendering ==
    /\ [](entry = "app" /\ pc = "stopped" =>
            screen.error # <<>> /\ screen.page = "none" /\ screen.shown = <<>>)
    /\ [](entry = "app" /\ screen.page # "none" => err = NoError)
    /\ [][entry = "app" /\ err # NoError =>
            /\ pc' = "stopped"
            /\ screen'.error # <<>>
            /\ screen'.page = "none"]_vars

\* C19 witness: the run stopped on the error of the pipeline with the
\* overview page selected, and nothing of the page is on the screen.
C19_Witness ==
    /\ entry = "app"
    /\ pc = "stopped"
    /\ selected_page = "Overview"
    /\ err.type = "RuntimeError"
    /\ screen.error # <<>>
    /\ screen.page = "none"

\* the four core aggregates
CoreAggregates == {"timeseries", "region_ses", "vaccine_effect", "kpi"}
\* the bundle the aggregator produces for the run's feature set and filters
Produced ==
    generate_analysis_tables(feature_data, year_filter, region_filter).val

\* C20: in every run of app.py that reaches rendering, the bundle handed to
\* the renderers is the aggregator's, and each core aggregate a renderer
\* shows is the aggregator's table of that name, never the empty placeholder.
C20_NoPlaceholderForCoreAggregates ==
    entry = "app" =>
        /\ pc \in {"render", "done"} => analysis_tables = Produced
        /\ screen.page # "none" =>
              /\ DOMAIN screen.shown = TablesRead(screen.page)
              /\ \A key \in DOMAIN screen.shown \cap CoreAggregates :
                    /\ key \in DOMAIN Produced
                    /\ screen.shown[key] = Produced[key]
                    /\ screen.shown[key] # EmptyTable

\* C20 witness: the deep-dives page was rendered and shows the aggregator's
\* region_ses and vaccine_effect tables.
C20_Witness ==
    /\ entry = "app"
    /\ pc = "done"
    /\ screen.page = "Deep Dives"
    /\ DOMAIN screen.shown = {"region_ses", "vaccine_effect"}
    /\ screen.shown["region_ses"] = analysis_tables.region_ses
    /\ screen.shown["region_ses"] # EmptyTable

-----------------------------------------------------------------------------
(* Frame properties *)

\* C21: no step of a run changes a table that already exists: the raw, the
\* cleaned and the feature table stay as they were when the next stage has
\* run on them, and once the pipeline has returned the bundle neither app.py
\* nor save_analysis_tables adds, removes or replaces a table in it.
C21_NothingMutatedInPlace ==
    [][/\ raw_data # NoFrame => raw_data' = raw_data
       /\ cleaned_data # NoFrame => cleaned_data' = cleaned_data
       /\ feature_data # NoFrame => feature_data' = feature_data
       /\ analysis_tables # NoTables => analysis_tables' = analysis_tables]_vars

\* C21 witness: save_analysis_tables wrote the bundle after the cleaner had
\* dropped rows of the raw table, and the raw table still holds them.
C21_Witness ==
    /\ entry = "save_analysis_tables"
    /\ pc = "returned"
    /\ output_file = Pickled(analysis_tables)
    /\ analysis_tables # NoTables
    /\ NRows(cleaned_data) < NRows(raw_data)
    /\ "year" \in feature_data.cols /\ "year" \notin cleaned_data.cols

-----------------------------------------------------------------------------
(* Properties of the aggregate tables *)

\* the cases of the selected rows of season s, every region and SES level
SeasonCases(s) ==
    LET S == {r \in SelectedRows : r.season = s}
    IN SumFn([r \in S |-> feature_data.rows[r] * r.daily_new_cases.v], S)

\* C22: the kpi row 'Peak Season Cases' is the largest of the per-season
\* sums of daily_new_cases over all selected rows of the season: it is the
\* sum of some season present in the selection and no season sums to more.
C22_PeakIsLargestSeasonSum ==
    entry = "generate_analysis_tables" /\ pc = "returned" =>
        LET peak == analysis_tables.kpi[4]
            seasons == {r.season : r \in SelectedRows}
        IN /\ peak.metric = "Peak Season Cases"
           /\ \E s \in seasons : peak.value = SeasonCases(s)
           /\ \A s \in seasons : SeasonCases(s) <= peak.value

\* C22 witness: two regions have rows in the peak season, so the peak is
\* more than the cases of any (region, SES, season) group and of any row.
C22_Witness ==
    /\ entry = "generate_analysis_tables"
    /\ pc = "returned"
    /\ \E r, q \in SelectedRows :
          r.season = q.season /\ r.location # q.location
            /\ analysis_tables.kpi[4].value = SeasonCases(r.season)
    /\ \A i \in DOMAIN analysis_tables.region_ses :
          analysis_tables.region_ses[i].daily_new_cases.v
            < analysis_tables.kpi[4].value

\* the order of the texts
TextBefore(a, b) ==
    \E i, j \in DOMAIN TextOrder : TextOrder[i] = a /\ TextOrder[j] = b /\ i < j
\* (year, month, location) of row a comes before that of row b
TimeBefore(a, b) ==
    \/ a.year < b.year
    \/ a.year = b.year /\ a.month < b.month
    \/ a.year = b.year /\ a.month = b.month /\ TextBefore(a.location, b.location)

\* C24: the timeseries table has one row for each (year, month, location) of
\* the selected rows and no other row, each row comes before the next in the
\* order of (year, month, location), and the date of a row is the first day
\* of its year and month.
C24_TimeseriesRows ==
    entry = "generate_analysis_tables" /\ pc = "returned" =>
        LET timeseries == analysis_tables.timeseries
            combos == {<<r.year, r.month, r.location>> : r \in SelectedRows}
        IN /\ Len(timeseries) = Cardinality(combos)
           /\ {<<timeseries[i].year, timeseries[i].month, timeseries[i].location>> :
                   i \in DOMAIN timeseries} = combos
           /\ \A i \in 1..(Len(timeseries) - 1) :
                 TimeBefore(timeseries[i], timeseries[i + 1])
           /\ \A i \in DOMAIN timeseries :
                 timeseries[i].date = Date(timeseries[i].year, timeseries[i].month)

\* C24 witness: the selection holds two months of one year, one of them
\* with several records; the table has the two rows, January first.
C24_Witness ==
    /\ entry = "generate_analysis_tables"
    /\ pc = "returned"
    /\ Len(analysis_tables.timeseries) = 2
    /\ NRows(analysis_tables.raw_feature) > 2
    /\ analysis_tables.timeseries[1].date = Date(2023, 1)
    /\ analysis_tables.timeseries[2].date = Date(2023, 7)

\* the selected rows of the (location, ses, season) group of table row g
RegionSesRows(g) ==
    {r \in SelectedRows :
        r.location = g.location /\ r.ses = g.ses /\ r.season = g.season}

\* C25: the region_ses table has one row for each (location, ses, season)
\* of the selected rows, the sample_size of a row is the number of selected
\* rows of its group, the sample sizes add up to the row count of
\* raw_feature and the daily_new_cases to the kpi 'Total Cases'.
C25_RegionSesGroups ==
    entry = "generate_analysis_tables" /\ pc = "returned" =>
        LET region_ses == analysis_tables.region_ses
            groups == {<<r.location, r.ses, r.season>> : r \in SelectedRows}
        IN /\ Len(region_ses) = Cardinality(groups)
           /\ {<<region_ses[i].location, region_ses[i].ses, region_ses[i].season>> :
                   i \in DOMAIN region_ses} = groups
           /\ \A i \in DOMAIN region_ses :
                 region_ses[i].sample_size =
                     SumFn([r \in RegionSesRows(region_ses[i]) |-> feature_data.rows[r]],
                           RegionSesRows(region_ses[i]))
           /\ SumFn([i \in DOMAIN region_ses |-> region_ses[i].sample_size],
                    DOMAIN region_ses) = NRows(analysis_tables.raw_feature)
           /\ SumFn([i \in DOMAIN region_ses |-> region_ses[i].daily_new_cases.v],
                    DOMAIN region_ses) = analysis_tables.kpi[1].value

\* C25 witness: under a region filter, two groups (two seasons of the
\* region), one of them of two records, three rows in all.
C25_Witness ==
    /\ entry = "generate_analysis_tables"
    /\ pc = "returned"
    /\ Len(analysis_tables.region_ses) = 2
    /\ \E i \in DOMAIN analysis_tables.region_ses :
          analysis_tables.region_ses[i].sample_size = 2
    /\ NRows(analysis_tables.raw_feature) = 3
    /\ args.region_filter = Filter({"Urban"})

VaccinationLabels == {"Vaccinated", "Unvaccinated"}
\* the selected rows that table row g stands for
VaccineEffectRows(g) ==
    {r \in SelectedRows :
        /\ r.vaccination_status =
              (IF g.vaccination_status = "Vaccinated" THEN Whole(1) ELSE Whole(0))
        /\ r.immunity_level = g.immunity_level
        /\ r.age_group = g.age_group}

\* C26: every row of vaccine_effect is labelled 'Vaccinated' (code 1) or
\* 'Unvaccinated' (code 0), no two rows share (vaccination status, immunity
\* level, age group), and no selected row is left out of the grouping: each
\* has its three keys defined and a table row standing for it, whose
\* daily_new_cases is the mean over all selected rows of the group.
C26_VaccineEffectGroups ==
    entry = "generate_analysis_tables" /\ pc = "returned" =>
        LET vaccine_effect == analysis_tables.vaccine_effect
        IN /\ \A i \in DOMAIN vaccine_effect :
                 vaccine_effect[i].vaccination_status \in VaccinationLabels
           /\ \A i, j \in DOMAIN vaccine_effect :
                 /\ vaccine_effect[i].vaccination_status = vaccine_effect[j].vaccination_status
                 /\ vaccine_effect[i].immunity_level = vaccine_effect[j].immunity_level
                 /\ vaccine_effect[i].age_group = vaccine_effect[j].age_group
                 => i = j
           /\ \A r \in SelectedRows :
                 /\ IsNum(r.vaccination_status)
                 /\ r.immunity_level # NaNText /\ r.age_group # NaNText
                 /\ \E i \in DOMAIN vaccine_effect : r \in VaccineEffectRows(vaccine_effect[i])
           /\ \A i \in DOMAIN vaccine_effect :
                 LET G == VaccineEffectRows(vaccine_effect[i])
                     size == SumFn([r \in G |-> feature_data.rows[r]], G)
                     cases == SumFn([r \in G |-> feature_data.rows[r] * r.daily_new_cases.v], G)
                 IN /\ size > 0
                    /\ vaccine_effect[i].daily_new_cases.n * size
                         = cases * vaccine_effect[i].daily_new_cases.d

\* C26 witness: a vaccinated and an unvaccinated record of different age
\* groups were selected and the table has a row for each.
C26_Witness ==
    /\ entry = "generate_analysis_tables"
    /\ pc = "returned"
    /\ Len(analysis_tables.vaccine_effect) = 2
    /\ \E i, j \in DOMAIN analysis_tables.vaccine_effect :
          /\ analysis_tables.vaccine_effect[i].vaccination_status = "Unvaccinated"
          /\ analysis_tables.vaccine_effect[i].age_group = "Child (0-18)"
          /\ analysis_tables.vaccine_effect[j].vaccination_status = "Vaccinated"
          /\ analysis_tables.vaccine_effect[j].age_group = "Elderly (66+)"

-----------------------------------------------------------------------------
(* Concurrent calls *)

\* what a call of get_processed_data with arguments a ends with when it runs
\* alone on file f
Alone(f, a) ==
    LET loaded == load_raw_dataset(f)
        cleaned == clean_raw_data(loaded.val)
        featured == create_business_features(cleaned.val)
        yf == IF a.year_filter.none THEN DefaultFilter(featured.val, "year")
              ELSE a.year_filter
        rf == IF a.region_filter.none THEN DefaultFilter(featured.val, "location")
              ELSE a.region_filter
        tables == generate_analysis_tables(featured.val, yf, rf)
        Failed(e) == [pc |-> "raised", feature_data |-> NoFrame,
                      analysis_tables |-> NoTables, err |-> EndToEndFailure(e)]
    IN IF ~loaded.ok THEN Failed(loaded.err)
       ELSE IF ~cleaned.ok THEN Failed(cleaned.err)
       ELSE IF ~featured.ok THEN Failed(featured.err)
       ELSE IF ~tables.ok
       THEN [Failed(tables.err) EXCEPT !.feature_data = featured.val]
       ELSE [pc |-> "returned", feature_data |-> featured.val,
             analysis_tables |-> tables.val, err |-> NoError]
\* the call has ended as it ends alone
EndsAsAlone(call) ==
    call.pc \in {"returned", "raised"} =>
        [pc |-> call.pc, feature_data |-> call.feature_data,
         analysis_tables |-> call.analysis_tables, err |-> call.err]
          = Alone(file, call.args)

\* C27: when two calls of get_processed_data on the same unchanged file are
\* interleaved in any order, each of them ends with the feature set and the
\* bundle (or the error) it ends with when it runs alone.
C27_CallsIndependent ==
    entry = "get_processed_data" /\ suspended.pc # "none" =>
        EndsAsAlone(Running) /\ EndsAsAlone(suspended)

\* C27 witness: a call with filters has returned while the other call, with
\* no filters, is off the processor between two of its stages; the bundle
\* of the first holds fewer rows than the feature set.
C27_Witness ==
    /\ entry = "get_processed_data"
    /\ pc = "returned"
    /\ suspended.pc = "aggregate"
    /\ suspended.args = NoArgs
    /\ args # NoArgs
    /\ suspended.year_filter # year_filter
    /\ NRows(analysis_tables.raw_feature) < NRows(feature_data)

-----------------------------------------------------------------------------
(* The two results of get_processed_data *)

\* the cleaned record a feature row was built from
CleanedPart(r) == [c \in cleaned_data.cols |-> r[c]]

\* C28: the feature set get_processed_data returns holds every cleaned
\* record, whatever the filters; raw_feature of the bundle holds the selected
\* rows of it only, so when the filters exclude a record, raw_feature has
\* fewer rows than the returned feature set.
C28_FeatureSetUnfiltered ==
    entry = "get_processed_data" /\ pc = "returned" =>
        /\ NRows(feature_data) = NRows(cleaned_data)
        /\ {CleanedPart(r) : r \in RowsOf(feature_data)} = RowsOf(cleaned_data)
        /\ RowsOf(analysis_tables.raw_feature) = SelectedRows
        /\ \A r \in SelectedRows :
              analysis_tables.raw_feature.rows[r] = feature_data.rows[r]
        /\ SelectedRows # RowsOf(feature_data) =>
              NRows(analysis_tables.raw_feature) < NRows(feature_data)

\* C28 witness: a run with the year filter [2023] on a file of both years
\* returned; the feature set has the 2024 records, raw_feature has not.
C28_Witness ==
    /\ entry = "get_processed_data"
    /\ pc = "returned"
    /\ args.year_filter = Filter({2023})
    /\ \E r \in RowsOf(feature_data) : r.year = 2024
    /\ \A r \in RowsOf(analysis_tables.raw_feature) : r.year = 2023
    /\ NRows(analysis_tables.raw_feature) < NRows(feature_data)

\* the error types of the stages: NotFound and Validation
StageErrorTypes == {"FileNotFoundError", "ValueError"}

\* C29: an error that leaves get_processed_data is a RuntimeError, never a
\* FileNotFoundError or ValueError: the type of the stage's error is the
\* first link of its chain of causes. An absent file shows as RuntimeError
\* caused by FileNotFoundError; a file of too few rows, an input without a
\* valid row and a selection without rows as RuntimeError caused by
\* ValueError.
C29_OnlyRuntimeErrorEscapes ==
    entry = "get_processed_data" =>
        /\ err # NoError <=> pc = "raised"
        /\ pc = "raised" =>
              /\ err.type = "RuntimeError"
              /\ err.type \notin StageErrorTypes
              /\ err.cause # <<>>
              /\ ~file.exists => Head(err.cause) = "FileNotFoundError"
              /\ file.readable /\ REQUIRED_FIELDS \subseteq file.table.cols
                   /\ NRows(file.table) < min_data_rows
                   => Head(err.cause) = "ValueError"
              /\ raw_data # NoFrame /\ cleaned_data = NoFrame
                   /\ REQUIRED_FIELDS \subseteq raw_data.cols
                   => Head(err.cause) = "ValueError"
              /\ feature_data # NoFrame => Head(err.cause) = "ValueError"

\* C29 witness: the file is absent; the caller sees a RuntimeError whose
\* cause is the loader's FileNotFoundError.
C29_Witness ==
    /\ entry = "get_processed_data"
    /\ pc = "raised"
    /\ ~file.exists
    /\ err.type = "RuntimeError"
    /\ err.cause = <<"FileNotFoundError">>

-----------------------------------------------------------------------------
(* The cache file of save_analysis_tables *)

\* C30: the only step of save_analysis_tables that changes the cache file
\* is the write after get_processed_data has returned, and it writes the
\* returned bundle; a step that ends the run with an error leaves the file as
\* it was, an old one with its content and an absent one absent.
C30_CacheWrittenAfterSuccess ==
    [][entry = "save_analysis_tables" =>
          /\ output_file' # output_file =>
                /\ pc = "save" /\ pc' = "returned"
                /\ err = NoError
                /\ analysis_tables # NoTables
                /\ output_file' = Pickled(analysis_tables)
          /\ pc' = "raised" => output_file' = output_file
          /\ pc # "save" /\ pc' = "raised" =>
                output_file \in {NoOutput, Pickled(OldBundle)}]_vars

\* C30 witness: data processing failed in a run allowed to overwrite an
\* existing cache file; the file still holds the old bundle.
C30_Witness ==
    /\ entry = "save_analysis_tables"
    /\ pc = "raised"
    /\ overwrite
    /\ Head(err.msg) = "Data processing failed"
    /\ output_file = Pickled(OldBundle)

====
